---------------------------- MODULE Spec2Model ----------------------------
(***************************************************************************)
(* Pointer-driven area selection (useAreaSelection) and drag-and-drop      *)
(* (useFileDragDrop) of the file-list views, as state machines.            *)
(*                                                                         *)
(* Geometry is in whole CSS pixels.  Candidate geometry is in the          *)
(* container's content space (scrollTop + rect.y - containerBox.y), pointer*)
(* positions are client coordinates and are converted by getPosition.      *)
(***************************************************************************)
EXTENDS Integers, Sequences, FiniteSets, TLC

(***************************************************************************)
(* Program constants                                                       *)
(***************************************************************************)
DRAG_THRESHOLD == 5

(***************************************************************************)
(* Bounds of the model                                                     *)
(***************************************************************************)
\* most rendered rows of a generated layout
MaxRows == 3

\* a nullable value: None is null, Some(v) a value
None == <<>>
Some(v) == <<v>>
IsSome(o) == o # <<>>
Val(o) == o[1]

Min(a, b) == IF a < b THEN a ELSE b
Max(a, b) == IF a > b THEN a ELSE b
Abs(a) == IF a < 0 THEN -a ELSE a

(***************************************************************************)
(* Pure functions of useAreaSelection                                      *)
(***************************************************************************)

\* binarySearchTop: the loop of lines 26-30 from (start, end); returns end.
RECURSIVE TopLoop(_, _, _, _)
TopLoop(list, target, start, end) ==
    IF start <= end
    THEN LET mid == (start + end) \div 2
         IN IF list[mid + 1][1].y < target
            THEN TopLoop(list, target, mid + 1, end)
            ELSE TopLoop(list, target, start, mid - 1)
    ELSE end

\* binarySearchTop returning start, the first row at or below the target
RECURSIVE TopLoopStart(_, _, _, _)
TopLoopStart(list, target, start, end) ==
    IF start <= end
    THEN LET mid == (start + end) \div 2
         IN IF list[mid + 1][1].y < target
            THEN TopLoopStart(list, target, mid + 1, end)
            ELSE TopLoopStart(list, target, start, mid - 1)
    ELSE start

binarySearchTopReturnsStart(list, target) == TopLoopStart(list, target, 0, Len(list) - 1)

\* rows are 0-based in the source: row i of the source is list[i + 1] here
binarySearchTop(list, target) == TopLoop(list, target, 0, Len(list) - 1)

RECURSIVE BottomLoop(_, _, _, _)
BottomLoop(list, target, start, end) ==
    IF start <= end
    THEN LET mid == (start + end) \div 2
         IN IF list[mid + 1][1].y <= target
            THEN BottomLoop(list, target, mid + 1, end)
            ELSE BottomLoop(list, target, start, mid - 1)
    ELSE end

binarySearchBottom(list, target) == BottomLoop(list, target, 0, Len(list) - 1)

\* the AABB test with its third clause on the candidate's bottom edge
IntersectsBottomInside(el, startX, startY, endX, endY) ==
    ~(el.x > endX \/ el.right < startX \/ el.bottom > endY \/ el.bottom < startY)

\* the AABB test of line 180
Intersects(el, startX, startY, endX, endY) ==
    ~(el.x > endX \/ el.right < startX \/ el.y > endY \/ el.bottom < startY)

\* lines 180-181 without the itemCount test
SelectsWithoutCount(el, startX, startY, endX, endY, count) ==
    Intersects(el, startX, startY, endX, endY)

\* lines 180-181: whether the candidate's index is pushed
Selects(el, startX, startY, endX, endY, count) ==
    Intersects(el, startX, startY, endX, endY) /\ el.index < count

\* the inner loop over one row (lines 178-185): the indices it pushes, in order
RECURSIVE ScanRow(_, _, _, _, _, _, _)
ScanRow(row, j, startX, startY, endX, endY, count) ==
    IF j > Len(row) THEN <<>>
    ELSE (IF Selects(row[j], startX, startY, endX, endY, count)
          THEN <<row[j].index>> ELSE <<>>)
         \o ScanRow(row, j + 1, startX, startY, endX, endY, count)

\* the outer loop for (i = top; i <= bottom; i++) (lines 176-186)
RECURSIVE ScanRows(_, _, _, _, _, _, _, _)
ScanRows(cands, i, bottom, startX, startY, endX, endY, count) ==
    IF i > bottom THEN <<>>
    ELSE ScanRow(cands[i + 1], 1, startX, startY, endX, endY, count)
         \o ScanRows(cands, i + 1, bottom, startX, startY, endX, endY, count)

\* lines 172-173: the narrowed range of rows
RangeTop(cands, startY) == Max(0, binarySearchTop(cands, startY))

RangeBottom(cands, endY) == binarySearchBottom(cands, endY)

\* the rectangle taken from start to end as given
RectOfAsGiven(start, end) ==
    [startX |-> start.x, startY |-> start.y, endX |-> end.x, endY |-> end.y]

\* lines 164-167: the normalised rectangle of a draw area
RectOf(start, end) ==
    [startX |-> Min(start.x, end.x), startY |-> Min(start.y, end.y),
     endX |-> Max(start.x, end.x), endY |-> Max(start.y, end.y)]

\* processSelection, lines 164-186: activeIndices for a non-empty candidate list
ActiveIndices(cands, start, end, count) ==
    LET r == RectOf(start, end)
        \* the loop as a function of top and bottom, which lines 172-173
        \* compute once
        scan[top \in Int, bottom \in Int] ==
            ScanRows(cands, top, bottom, r.startX, r.startY, r.endX, r.endY, count)
    IN scan[RangeTop(cands, r.startY), RangeBottom(cands, r.endY)]


\* Number.prototype.toString of a non-negative integer, one character per element
DigitChars == <<"0", "1", "2", "3", "4", "5", "6", "7", "8", "9">>

RECURSIVE NumberToString(_)
NumberToString(n) ==
    IF n < 10 THEN <<DigitChars[n + 1]>>
    ELSE NumberToString(n \div 10) \o <<DigitChars[(n % 10) + 1]>>

\* Array.prototype.join(','), line 188: the cache key as a character sequence
RECURSIVE Join(_)
Join(list) ==
    IF list = <<>> THEN <<>>
    ELSE IF Len(list) = 1 THEN NumberToString(list[1])
    ELSE NumberToString(list[1]) \o <<",">> \o Join(Tail(list))

\* updateCandidates, lines 129-147: elements are the rendered rows' rectangles,
\* already relative to the container box and its scroll position
RECURSIVE GroupRows(_, _, _, _)
GroupRows(elements, i, rows, lastY) ==
    IF i > Len(elements) THEN rows
    ELSE LET rect == elements[i]
             candidate == [index |-> i - 1, x |-> rect.x, y |-> rect.y,
                           bottom |-> rect.bottom, right |-> rect.right]
         IN IF IsSome(lastY) /\ Abs(rect.y - Val(lastY)) < 1
            THEN GroupRows(elements, i + 1,
                           [rows EXCEPT ![Len(rows)] = Append(@, candidate)], lastY)
            ELSE GroupRows(elements, i + 1, Append(rows, <<candidate>>), Some(rect.y))

updateCandidates(elements) == GroupRows(elements, 1, <<>>, None)

\* the elements of a sequence, as a set
Range(seq) == {seq[i] : i \in 1..Len(seq)}


(***************************************************************************)
(* The page the engines run in                                             *)
(***************************************************************************)
VARIABLES
    area,   \* the locals of one useAreaSelection closure (lines 91-105)
    dd,     \* the locals and refs of one useFileDragDrop closure (lines 36-47)
    doc,    \* the document: body inline styles, listeners, frame callbacks, scroll
    host,   \* what the host component supplies: refs and options
    obs,    \* observations of the callbacks the engines invoke, for the properties
    sel,    \* inputs and results of processSelection applied as a pure function
    upload  \* the upload store and the calls of its async actions

vars == <<area, dd, doc, host, obs, sel, upload>>

\* pointer positions (client coordinates) the events carry
\* (12, 14) to (12, 18) is 4px, (12, 14) to (15, 18) is 5px
Pointers == {[x |-> 12, y |-> 14], [x |-> 12, y |-> 18], [x |-> 15, y |-> 18]}

\* states of the Ctrl key the mousemove events carry
ModifierStates == BOOLEAN

\* inline values of document.body.style.userSelect before any gesture
BodyUserSelects == {"", "text"}

\* most items of the host's list
MaxItems == 2

\* rendered row i (0-based), relative to the container box and its scroll
\* position, as updateCandidates measures it (lines 131-138)
RowRect(i) == [x |-> 3, y |-> 4 * i, right |-> 53, bottom |-> 4 * i + 3]

RenderedRows(n) == [i \in 1..n |-> RowRect(i - 1)]

\* the scrollable ancestor getScrollParent finds: its client rectangle and the
\* furthest it scrolls
ScrollParentRect == [left |-> 0, top |-> 14, right |-> 60, bottom |-> 18]

\* container.getBoundingClientRect(): the container lies in the scrolled content
\* of the scroll parent and does not scroll itself (scrollLeft = scrollTop = 0)
ContainerBox(scrollTop) ==
    [left |-> 2, top |-> 13 - scrollTop, right |-> 58, bottom |-> 33 - scrollTop]

\* getPosition, lines 107-113
getPosition(scrollTop, clientX, clientY) ==
    LET box == ContainerBox(scrollTop)
    IN [x |-> 0 + clientX - box.left, y |-> 0 + clientY - box.top]

\* the engines' state and the page as one value, so that a handler is a function
\* obs.lastRun and obs.lastCall tell what the step just taken did: every step
\* starts with them cleared
World ==
    [area |-> area, dd |-> dd, doc |-> doc, host |-> host,
     obs |-> [obs EXCEPT !.lastRun = None, !.lastCall = None, !.lastDrop = None,
                         !.lastPress = None, !.lastCancel = None,
                         !.gestureOver = IF dd.state = "IDLE" THEN "nothing" ELSE @]]

\* the step to the page w, which is computed once
SetWorld(w) ==
    \E next \in {w} :
        /\ dd' = next.dd
        /\ area' = next.area
        /\ doc' = next.doc
        /\ host' = next.host
        /\ obs' = next.obs

(***************************************************************************)
(* useAreaSelection                                                        *)
(***************************************************************************)

\* options.onSelectionChange(activeIndices, ctrlKey, metaKey), line 192
onSelectionChange(w, indices, ctrlKey, metaKey) ==
    [w EXCEPT !.obs.lastCall = Some([indices |-> indices, ctrlKey |-> ctrlKey,
                                     metaKey |-> metaKey,
                                     itemCount |-> w.host.itemCount,
                                     dragging |-> w.area.dragging]),
              !.obs.sessionEmitted = Some(indices)]

\* a comparison that never finds the cache equal
CacheNeverHits(elementsCache, cacheKey) == FALSE

\* line 189: elementsCache === cacheKey
CacheHit(elementsCache, cacheKey) == elementsCache = Some(cacheKey)

\* processSelection, lines 151-193.  Lines 156-162 write the floating box's inline
\* left, top, width and height, which nothing reads back: they are not state here.
processSelection(w) ==
    LET start == w.area.drawArea.start
        end == w.area.drawArea.end
    IN IF ~IsSome(start) \/ ~IsSome(end) \/ ~w.host.container THEN w
       ELSE LET w1 == w
                candidates == w.area.selectCandidates
            IN IF Len(candidates) = 0 THEN w1
               ELSE LET activeIndices == ActiveIndices(candidates, Val(start),
                                                       Val(end), w.host.itemCount)
                        cacheKey == Join(activeIndices)
                        run == [computed |-> activeIndices,
                                previous |-> w.obs.sessionEmitted]
                    IN IF CacheHit(w.area.elementsCache, cacheKey)
                       THEN [w1 EXCEPT !.obs.lastRun =
                                 Some(run @@ [emitted |-> FALSE])]
                       ELSE onSelectionChange(
                                [w1 EXCEPT !.area.elementsCache = Some(cacheKey),
                                           !.obs.lastRun =
                                               Some(run @@ [emitted |-> TRUE])],
                                activeIndices, w.area.drawArea.ctrlKey,
                                w.area.drawArea.metaKey)

\* requestAnimationFrame: a handle no pending callback has
FreshHandle(queue) == CHOOSE n \in 1..(Cardinality(queue) + 1) : n \notin queue

\* scheduleSelectionUpdate, lines 195-203 (the callback is AnimationFrame below)
scheduleSelectionUpdate(w) ==
    IF IsSome(w.area.rafId) THEN w
    ELSE LET id == FreshHandle(w.doc.rafQueue)
         IN [w EXCEPT !.area.rafId = Some(id), !.doc.rafQueue = @ \cup {id}]

\* startDragging, lines 205-227
startDragging(w, e) ==
    LET w1 == [w EXCEPT !.area.dragging = TRUE, !.area.elementsCache = None,
                        !.obs.sessionEmitted = None]
    IN IF ~w.host.container THEN w1
       ELSE LET pos == getPosition(w.doc.scrollTop, w.area.mouseDownClientX,
                                   w.area.mouseDownClientY)
            IN processSelection(
                 [w1 EXCEPT !.area.scrollParent = TRUE,
                            !.area.selectCandidates =
                                updateCandidates(RenderedRows(w.host.domCount)),
                            !.area.drawArea =
                                [start |-> Some(pos),
                                 end |-> Some(getPosition(w.doc.scrollTop,
                                                          e.clientX, e.clientY)),
                                 ctrlKey |-> e.ctrlKey, metaKey |-> e.metaKey],
                            !.doc.box = TRUE])

\* cleanup without lines 233-236: the scheduled frame is left to run
cleanupKeepsFrame(w) ==
    [w EXCEPT !.doc.userSelect = "",
              !.area.mouseDown = FALSE,
              !.area.dragging = FALSE,
              !.area.scrollParent = FALSE,
              !.doc.box = FALSE,
              !.doc.listeners = @ \ {"area.mouseup", "area.mousemove"}]

\* cleanup leaving the mousemove listener attached
cleanupKeepsListener(w) ==
    [w EXCEPT !.doc.userSelect = "",
              !.area.mouseDown = FALSE,
              !.area.dragging = FALSE,
              !.area.scrollParent = FALSE,
              !.area.rafId = None,
              !.doc.rafQueue = IF IsSome(w.area.rafId)
                               THEN @ \ {Val(w.area.rafId)} ELSE @,
              !.doc.box = FALSE,
              !.doc.listeners = @ \ {"area.mouseup"}]

\* cleanup, lines 229-243
cleanup(w) ==
    [w EXCEPT !.doc.userSelect = "",
              !.area.mouseDown = FALSE,
              !.area.dragging = FALSE,
              !.area.scrollParent = FALSE,
              !.area.rafId = None,
              !.doc.rafQueue = IF IsSome(w.area.rafId)
                               THEN @ \ {Val(w.area.rafId)} ELSE @,
              !.doc.box = FALSE,
              !.doc.listeners = @ \ {"area.mouseup", "area.mousemove"}]

\* the sum of squares compared with the threshold itself
BelowThresholdUnsquared(dx, dy) == dx * dx + dy * dy < DRAG_THRESHOLD

\* Math.sqrt(dx * dx + dy * dy) < DRAG_THRESHOLD, line 261: for integers the
\* square root is below 5 exactly when the sum of squares is below 25
BelowThreshold(dx, dy) == dx * dx + dy * dy < DRAG_THRESHOLD * DRAG_THRESHOLD

\* the auto-scroll of lines 276-287; the browser keeps scrollTop within
\* 0..maxScrollTop, the scroll parent's scrollHeight - clientHeight
AutoScroll(scrollTop, maxScrollTop, clientY) ==
    LET scrollRect == ScrollParentRect
        height == scrollRect.bottom - scrollRect.top
        distanceFromBottom == scrollRect.bottom - clientY
        distanceFromTop == clientY - scrollRect.top
    \* d < height * 0.1 is 10 * d < height
    IN IF 10 * distanceFromBottom < height THEN Min(scrollTop + 10, maxScrollTop)
       ELSE IF 10 * distanceFromTop < height THEN Max(scrollTop - 10, 0)
       ELSE scrollTop

\* onDocumentMouseMove, lines 249-290
onDocumentMouseMove(w, e) ==
    IF ~e.left THEN cleanup(w)
    ELSE IF ~w.area.mouseDown \/ ~w.host.enabled THEN w
    ELSE IF ~w.area.dragging
    THEN IF BelowThreshold(e.clientX - w.area.mouseDownClientX,
                           e.clientY - w.area.mouseDownClientY)
         THEN w
         ELSE startDragging(w, e)
    ELSE LET w1 == [w EXCEPT !.doc.userSelect = "none"]
         IN IF ~w.host.container THEN w1
            ELSE scheduleSelectionUpdate(
                   [w1 EXCEPT !.area.drawArea.end =
                                  Some(getPosition(w.doc.scrollTop, e.clientX, e.clientY)),
                              !.area.drawArea.ctrlKey = e.ctrlKey,
                              !.area.drawArea.metaKey = e.metaKey,
                              !.doc.scrollTop = AutoScroll(@, w.doc.maxScrollTop, e.clientY)])

\* onDocumentMouseUp, lines 245-247
onDocumentMouseUp(w) == cleanup(w)

\* the guards of onMouseDown with the button test left out
MouseDownAcceptedAnyButton(w, e) ==
    /\ w.host.enabled
    /\ ~e.interactive
    /\ w.host.container /\ e.inside
    /\ ~e.canDrag

\* the guards of onMouseDown, lines 293-301, on an event e with
\*   button, interactive (target.closest(controls) matches),
\*   inside (container.contains(target)), canDrag (options.canDrag?.(target))
MouseDownAccepted(w, e) ==
    /\ e.button = 0 /\ w.host.enabled
    /\ ~e.interactive
    /\ w.host.container /\ e.inside
    /\ ~e.canDrag

\* onMouseDown, lines 292-310
onMouseDown(w, e) ==
    IF ~MouseDownAccepted(w, e) THEN w
    ELSE [w EXCEPT !.area.mouseDown = TRUE,
                   !.area.mouseDownClientX = e.clientX,
                   !.area.mouseDownClientY = e.clientY,
                   !.doc.listeners = @ \cup {"area.mouseup", "area.mousemove"}]

\* the watch(itemCount) callback recapturing without scheduling
onItemCountChangeUnscheduled(w) ==
    IF w.area.dragging /\ w.host.container
    THEN [w EXCEPT !.area.selectCandidates =
                       updateCandidates(RenderedRows(w.host.domCount))]
    ELSE w

\* the watch(itemCount) callback, lines 313-318
onItemCountChange(w) ==
    IF w.area.dragging /\ w.host.container
    THEN scheduleSelectionUpdate(
           [w EXCEPT !.area.selectCandidates =
                         updateCandidates(RenderedRows(w.host.domCount))])
    ELSE w

\* the requestAnimationFrame callback of lines 197-202
onAnimationFrame(w) ==
    LET w1 == [w EXCEPT !.area.rafId = None]
    IN IF w1.area.dragging THEN processSelection(w1) ELSE w1


(***************************************************************************)
(* The area-selection engine in its page: SpecArea                         *)
(***************************************************************************)

\* useFileDragDrop, lines 36-47
InitDragLocals ==
    [state |-> "IDLE", mouseDownX |-> 0, mouseDownY |-> 0, scrollParent |-> FALSE,
     savedCursor |-> "", savedUserSelect |-> "",
     isDragging |-> FALSE, dragItems |-> <<>>, dropTargetId |-> None,
     dropBreadcrumbPath |-> None, previewPos |-> [x |-> 0, y |-> 0]]

\* the host component: its list holds the first itemCount items, of which the
\* ids in selected are selected; enabled is the area selection's options.enabled,
\* dragEnabled the drag-and-drop's; breadcrumbDrop tells whether
\* options.onBreadcrumbDrop was supplied
InitHost(n, selected, breadcrumbDrop) ==
    [mounted |-> TRUE, container |-> TRUE, enabled |-> TRUE, itemCount |-> n,
     domCount |-> n, dragEnabled |-> TRUE, selected |-> selected,
     breadcrumbDrop |-> breadcrumbDrop]

InitAreaLocals ==
    [mouseDown |-> FALSE, dragging |-> FALSE, selectCandidates |-> <<>>,
     elementsCache |-> None, rafId |-> None,
     mouseDownClientX |-> 0, mouseDownClientY |-> 0, scrollParent |-> FALSE,
     drawArea |-> [start |-> None, end |-> None, ctrlKey |-> FALSE, metaKey |-> FALSE]]

InitObs ==
    [lastCall |-> None, sessionEmitted |-> None, lastRun |-> None,
     press |-> [x |-> 0, y |-> 0], sincePress |-> "far", pressWhileDragging |-> FALSE,
     lastDrop |-> None, lastPress |-> None, dragPress |-> [x |-> 0, y |-> 0],
     armedOnSelected |-> None, gestureOver |-> "nothing", escaped |-> "no",
     gestureDrops |-> 0, promise |-> "none",
     bodyBefore |-> [cursor |-> "", userSelect |-> ""],
     lastCancel |-> None, earlier |-> "none",
     lastMove |-> None, recapture |-> "none"]

NoSel == [phase |-> "off"]

\* the upload store of a page that uploads nothing (state(), lines 77-80)
NoUploads ==
    [tasks |-> <<>>, drawerOpen |-> FALSE, chunks |-> <<>>, deletes |-> <<>>,
     requests |-> <<>>]

\* the page before any gesture: the body's inline userSelect is us, its inline
\* cursor is cur and the scroll parent scrolls as far as maxScrollTop
InitDoc(us, cur, maxScrollTop) ==
    [userSelect |-> us, cursor |-> cur, box |-> FALSE, listeners |-> {},
     rafQueue |-> {}, scrollTop |-> 0, maxScrollTop |-> maxScrollTop]

\* a list that fits in its scroll parent
InitArea ==
    /\ area = InitAreaLocals
    /\ dd = InitDragLocals
    /\ \E us \in BodyUserSelects, n \in 0..MaxItems :
          /\ doc = InitDoc(us, "", 0)
          /\ host = InitHost(n, {}, FALSE)
          /\ obs = [InitObs EXCEPT !.bodyBefore.userSelect = us]
    /\ sel = NoSel
    /\ upload = NoUploads

\* the pointer position of the events whose position decides nothing
SomePointer == CHOOSE p \in Pointers : TRUE

\* the mousedown events the container's listener can receive: one that passes
\* every guard of the handler at each pointer position, and one for each guard
\* that fails
MouseDownEvents ==
    LET ok(p) == [button |-> 0, interactive |-> FALSE, inside |-> TRUE,
                  canDrag |-> FALSE, clientX |-> p.x, clientY |-> p.y]
    IN {ok(p) : p \in Pointers}
       \cup {[ok(SomePointer) EXCEPT !.button = 2],
             [ok(SomePointer) EXCEPT !.interactive = TRUE],
             [ok(SomePointer) EXCEPT !.inside = FALSE],
             [ok(SomePointer) EXCEPT !.canDrag = TRUE]}

\* the mousemove events the document can receive; left is (e.buttons & 1) # 0
MouseMoveEvents ==
    {[left |-> TRUE, clientX |-> p.x, clientY |-> p.y, ctrlKey |-> c, metaKey |-> FALSE] :
        p \in Pointers, c \in ModifierStates}
    \cup {[left |-> FALSE, clientX |-> SomePointer.x, clientY |-> SomePointer.y,
           ctrlKey |-> FALSE, metaKey |-> FALSE]}

\* Euclidean distance of event e from the point p strictly below 5px
Within5px(e, p) ==
    (e.clientX - p.x) * (e.clientX - p.x) + (e.clientY - p.y) * (e.clientY - p.y) < 25

\* obs.sincePress tells of the mousemoves with the left button held since the
\* last accepted press: "pressed" there was none yet, "near" each was less than
\* 5px from the press, "far" one was 5px or more away (or nothing was pressed yet)
ObservePress(w, e) ==
    [w EXCEPT !.obs.press = [x |-> e.clientX, y |-> e.clientY],
              !.obs.sincePress = "pressed",
              !.obs.pressWhileDragging = w.area.dragging,
              !.obs.bodyBefore.userSelect =
                  IF w.area.mouseDown THEN @ ELSE w.doc.userSelect]

ObserveMove(w, e) ==
    IF ~e.left \/ w.obs.sincePress = "far" THEN w
    ELSE [w EXCEPT !.obs.sincePress = IF Within5px(e, w.obs.press) THEN "near" ELSE "far"]

\* mousedown on the container element (the host wires onMouseDown to it)
AreaMouseDown ==
    /\ host.mounted /\ host.container
    /\ \E e \in MouseDownEvents :
          SetWorld(onMouseDown(IF MouseDownAccepted(World, e)
                               THEN ObservePress(World, e) ELSE World, e))
    /\ UNCHANGED <<sel, upload>>

\* mousemove on the document: the engine's listener runs if it is attached
AreaDocMouseMove ==
    /\ \E e \in MouseMoveEvents :
          LET w == ObserveMove(World, e)
          IN SetWorld(IF "area.mousemove" \in doc.listeners
                      THEN onDocumentMouseMove(w, e) ELSE w)
    /\ UNCHANGED <<sel, upload>>

\* mouseup on the document
AreaDocMouseUp ==
    /\ SetWorld(IF "area.mouseup" \in doc.listeners
                THEN onDocumentMouseUp(World) ELSE World)
    /\ UNCHANGED <<sel, upload>>

\* the browser runs a pending animation-frame callback
AnimationFrame ==
    /\ \E id \in doc.rafQueue :
          SetWorld(onAnimationFrame([World EXCEPT !.doc.rafQueue = @ \ {id}]))
    /\ UNCHANGED <<sel, upload>>

\* the host's list changes length: the watcher runs before the rows are
\* rendered again (a pre-flush watcher), then the rows are those of the new list
ItemCountChange ==
    /\ \E n \in 0..MaxItems :
          /\ n # host.itemCount
          /\ LET w == [World EXCEPT !.host.itemCount = n]
                 w1 == IF host.mounted THEN onItemCountChange(w) ELSE w
             IN SetWorld([w1 EXCEPT !.host.domCount = IF host.mounted THEN n ELSE @])
    /\ UNCHANGED <<sel, upload>>

\* the host switches options.enabled
SetEnabled ==
    /\ SetWorld([World EXCEPT !.host.enabled = ~@])
    /\ UNCHANGED <<sel, upload>>

\* the container element is removed from or put back into the mounted component
SetContainerRef ==
    /\ host.mounted
    /\ SetWorld([World EXCEPT !.host.container = ~@])
    /\ UNCHANGED <<sel, upload>>

\* onUnmounted, lines 320-322: the component is gone, its watcher stopped
AreaUnmount ==
    /\ host.mounted
    /\ SetWorld(cleanup([World EXCEPT !.host.mounted = FALSE,
                                      !.host.container = FALSE]))
    /\ UNCHANGED <<sel, upload>>

NextArea ==
    \/ AreaMouseDown
    \/ AreaDocMouseMove
    \/ AreaDocMouseUp
    \/ AnimationFrame
    \/ ItemCountChange
    \/ SetEnabled
    \/ SetContainerRef
    \/ AreaUnmount

SpecArea == InitArea /\ [][NextArea]_vars

(***************************************************************************)
(* processSelection's geometry applied to chosen inputs: SpecSel           *)
(***************************************************************************)

\* the index list processSelection computes from its inputs (lines 164-186);
\* with no candidates it returns before computing any (line 170)
SelectedIndices(cands, start, end, count) ==
    IF Len(cands) = 0 THEN <<>> ELSE ActiveIndices(cands, start, end, count)

\* rendered rectangles of a generated layout: a cell at top edge y in column c,
\* h pixels high; cells of one visual row share y
CellRect(y, c, h) == [x |-> 10 * c, y |-> y, right |-> 10 * c + 9, bottom |-> y + h]

CellChoices == {CellRect(y, c, h) : y \in {0, 4, 8}, c \in {0, 1}, h \in {3, 7}}

\* rows render in index order, top to bottom and left to right
InRenderOrder(rects) ==
    \A i \in 1..(Len(rects) - 1) :
        \/ rects[i].y < rects[i + 1].y
        \/ rects[i].y = rects[i + 1].y /\ rects[i].x < rects[i + 1].x

GeneratedLayouts ==
    UNION {{rects \in [1..n -> CellChoices] : InRenderOrder(rects)} : n \in 0..MaxRows}

\* drag end points (container-local) for the generated layouts
SelPoints == {[x |-> x, y |-> y] : x \in {5, 15}, y \in {2, 5, 9}}

\* the 5-row scenario: rows at y = 0, 30, 60, 90, 120, each 25 high
ScenarioLayout == [i \in 1..5 |-> [x |-> 0, y |-> 30 * (i - 1), right |-> 100,
                                   bottom |-> 30 * (i - 1) + 25]]

ScenarioInput ==
    [layout |-> ScenarioLayout, count |-> 5,
     a |-> [x |-> 10, y |-> 10], b |-> [x |-> 10, y |-> 95]]

SelInputs ==
    {[layout |-> l, count |-> c, a |-> a, b |-> b] :
        l \in GeneratedLayouts, c \in {0, 1, MaxRows}, a \in SelPoints, b \in SelPoints}
    \cup {ScenarioInput}

InitIdle ==
    /\ area = InitAreaLocals
    /\ dd = InitDragLocals
    /\ doc = InitDoc("", "", 0)
    /\ host = InitHost(0, {}, FALSE)
    /\ obs = InitObs
    /\ upload = NoUploads

InitSel ==
    /\ InitIdle
    /\ \E in \in SelInputs : sel = [in |-> in, fwd |-> None, bwd |-> None]

\* a drag from a to b over the layout's candidates
SelDrag ==
    /\ sel.fwd = None
    /\ sel' = [sel EXCEPT !.fwd = Some(SelectedIndices(updateCandidates(sel.in.layout),
                                                       sel.in.a, sel.in.b, sel.in.count))]
    /\ UNCHANGED <<area, dd, doc, host, obs, upload>>

\* the drag from b to a over the same candidates
SelDragReversed ==
    /\ sel.bwd = None
    /\ sel' = [sel EXCEPT !.bwd = Some(SelectedIndices(updateCandidates(sel.in.layout),
                                                       sel.in.b, sel.in.a, sel.in.count))]
    /\ UNCHANGED <<area, dd, doc, host, obs, upload>>

NextSel ==
    \/ SelDrag
    \/ SelDragReversed

SpecSel == InitSel /\ [][NextSel]_vars

(***************************************************************************)
(* useFileDragDrop                                                         *)
(***************************************************************************)
DRAG_THRESHOLD_DROP == 5

\* the items the host's list can hold, in list order: item i (0-based)
ItemIds == <<"a", "b", "c", "d">>

ItemNames == <<"A", "B", "C", "D">>

ItemAt(i) ==
    [id |-> ItemIds[i + 1], name |-> ItemNames[i + 1],
     type |-> IF i % 2 = 0 THEN "folder" ELSE "file"]

\* options.getItemAtIndex(index): the item, or None for undefined
getItemAtIndex(w, index) ==
    IF index >= 0 /\ index < w.host.itemCount THEN Some(ItemAt(index)) ELSE None

\* options.isItemSelected(id)
isItemSelected(w, id) == id \in w.host.selected

\* options.getSelectedItems(): the selected items of the list, in list order
RECURSIVE SelectedFrom(_, _)
SelectedFrom(w, i) ==
    IF i >= w.host.itemCount THEN <<>>
    ELSE (IF ItemAt(i).id \in w.host.selected THEN <<ItemAt(i)>> ELSE <<>>)
         \o SelectedFrom(w, i + 1)

getSelectedItems(w) == SelectedFrom(w, 0)

\* An element under the pointer or pressed on is given by what the handlers ask
\* of it: row is None when closest(itemSelector) finds nothing, else
\* [index, inside] with index what getIndexFromElement returns (-1: not among the
\* container's item elements) and inside what container.contains returns;
\* crumb is the data-drop-path of the closest such ancestor, or None.

\* findDropTarget with the folder test left out
findDropTargetAnyType(w, over) ==
    IF ~IsSome(over.row) THEN None
    ELSE IF ~w.host.container \/ ~Val(over.row).inside THEN None
    ELSE IF Val(over.row).index = -1 THEN None
    ELSE LET item == getItemAtIndex(w, Val(over.row).index)
         IN IF ~IsSome(item) THEN None
            ELSE IF isItemSelected(w, Val(item).id) THEN None
            ELSE item

\* findDropTarget, lines 76-96: the item, or None for null
findDropTarget(w, over) ==
    IF ~IsSome(over.row) THEN None
    ELSE IF ~w.host.container \/ ~Val(over.row).inside THEN None
    ELSE IF Val(over.row).index = -1 THEN None
    ELSE LET item == getItemAtIndex(w, Val(over.row).index)
         IN IF ~IsSome(item) THEN None
            ELSE IF Val(item).type # "folder" THEN None
            ELSE IF isItemSelected(w, Val(item).id) THEN None
            ELSE item

\* findBreadcrumbTarget, lines 98-105
findBreadcrumbTarget(w, over) ==
    IF ~w.host.breadcrumbDrop THEN None ELSE over.crumb

\* startDragging leaving isDragging as it is
drag_startDraggingUnannounced(w) ==
    [w EXCEPT !.dd.state = "DRAGGING",
              !.dd.dragItems = getSelectedItems(w),
              !.dd.savedCursor = w.doc.cursor,
              !.dd.savedUserSelect = w.doc.userSelect,
              !.doc.userSelect = "none",
              !.doc.cursor = "grabbing",
              !.dd.scrollParent = IF w.host.container THEN TRUE ELSE @]

\* startDragging, lines 107-121
drag_startDragging(w) ==
    [w EXCEPT !.dd.state = "DRAGGING",
              !.dd.isDragging = TRUE,
              !.dd.dragItems = getSelectedItems(w),
              !.dd.savedCursor = w.doc.cursor,
              !.dd.savedUserSelect = w.doc.userSelect,
              !.doc.userSelect = "none",
              !.doc.cursor = "grabbing",
              !.dd.scrollParent = IF w.host.container THEN TRUE ELSE @]

\* cleanup, lines 123-139
drag_cleanup(w) ==
    [w EXCEPT !.dd.state = "IDLE",
              !.dd.isDragging = FALSE,
              !.dd.dragItems = <<>>,
              !.dd.dropTargetId = None,
              !.dd.dropBreadcrumbPath = None,
              !.dd.scrollParent = FALSE,
              !.doc.cursor = w.dd.savedCursor,
              !.doc.userSelect = w.dd.savedUserSelect,
              !.dd.savedCursor = "",
              !.dd.savedUserSelect = "",
              !.doc.listeners = @ \ {"drag.mousemove", "drag.mouseup", "drag.keydown"}]

\* the sum of squares compared with the threshold itself
drag_BelowThresholdUnsquared(dx, dy) == dx * dx + dy * dy < DRAG_THRESHOLD_DROP

\* Math.sqrt(dx * dx + dy * dy) < DRAG_THRESHOLD, line 150
drag_BelowThreshold(dx, dy) ==
    dx * dx + dy * dy < DRAG_THRESHOLD_DROP * DRAG_THRESHOLD_DROP

\* lines 156-183 with the breadcrumb looked up whatever the row target
drag_trackBothTargets(w, e) ==
    LET target == findDropTarget(w, e.over)
        breadcrumbTarget == findBreadcrumbTarget(w, e.over)
        hasTarget == IsSome(target) \/ IsSome(breadcrumbTarget)
    IN [w EXCEPT !.dd.previewPos = [x |-> e.clientX + 12, y |-> e.clientY + 12],
                 !.dd.dropTargetId = IF IsSome(target) THEN Some(Val(target).id)
                                     ELSE None,
                 !.dd.dropBreadcrumbPath = breadcrumbTarget,
                 !.doc.cursor = IF hasTarget THEN "grabbing" ELSE "no-drop",
                 !.doc.scrollTop = IF w.dd.scrollParent \/ w.host.container
                                   THEN AutoScroll(@, w.doc.maxScrollTop, e.clientY)
                                   ELSE @]

\* lines 156-183 of onDocumentMouseMove, reached in state DRAGGING
drag_track(w, e) ==
    LET target == findDropTarget(w, e.over)
        breadcrumbTarget == IF ~IsSome(target) THEN findBreadcrumbTarget(w, e.over)
                            ELSE None
        hasTarget == IsSome(target) \/ IsSome(breadcrumbTarget)
    IN [w EXCEPT !.dd.previewPos = [x |-> e.clientX + 12, y |-> e.clientY + 12],
                 !.dd.dropTargetId = IF IsSome(target) THEN Some(Val(target).id)
                                     ELSE None,
                 !.dd.dropBreadcrumbPath = breadcrumbTarget,
                 !.doc.cursor = IF hasTarget THEN "grabbing" ELSE "no-drop",
                 !.doc.scrollTop = IF w.dd.scrollParent \/ w.host.container
                                   THEN AutoScroll(@, w.doc.maxScrollTop, e.clientY)
                                   ELSE @]

\* onDocumentMouseMove cancelling on a lost button in DRAGGING only
drag_onDocumentMouseMoveArmedStays(w, e) ==
    IF ~e.left THEN (IF w.dd.state = "DRAGGING" THEN drag_cleanup(w) ELSE w)
    ELSE IF w.dd.state = "ARMED"
              /\ drag_BelowThreshold(e.clientX - w.dd.mouseDownX,
                                     e.clientY - w.dd.mouseDownY)
    THEN w
    ELSE LET w1 == IF w.dd.state = "ARMED" THEN drag_startDragging(w) ELSE w
         IN IF w1.dd.state # "DRAGGING" THEN w1 ELSE drag_track(w1, e)

\* onDocumentMouseMove, lines 141-184
drag_onDocumentMouseMove(w, e) ==
    IF ~e.left THEN drag_cleanup(w)
    ELSE IF w.dd.state = "ARMED"
              /\ drag_BelowThreshold(e.clientX - w.dd.mouseDownX,
                                     e.clientY - w.dd.mouseDownY)
    THEN w
    ELSE LET w1 == IF w.dd.state = "ARMED" THEN drag_startDragging(w) ELSE w
         IN IF w1.dd.state # "DRAGGING" THEN w1 ELSE drag_track(w1, e)

\* findDropTargetItem, lines 204-212: over the rendered item elements
RECURSIVE FindItemFrom(_, _, _)
FindItemFrom(w, id, i) ==
    IF i >= w.host.domCount THEN None
    ELSE LET item == getItemAtIndex(w, i)
         IN IF IsSome(item) /\ Val(item).id = id THEN item
            ELSE FindItemFrom(w, id, i + 1)

\* findDropTargetItem finding nothing
findDropTargetItemNotFound(w, id) == None

findDropTargetItem(w, id) ==
    IF ~w.host.container THEN None ELSE FindItemFrom(w, id, 0)

\* the engine and the page as a callback invoked in w finds them
EngineSeen(w) ==
    [state |-> w.dd.state, isDragging |-> w.dd.isDragging,
     dragItems |-> w.dd.dragItems, dropTargetId |-> w.dd.dropTargetId,
     dropBreadcrumbPath |-> w.dd.dropBreadcrumbPath,
     cursor |-> w.doc.cursor, userSelect |-> w.doc.userSelect,
     listeners |-> w.doc.listeners]

\* options.onDrop(srcIds, dstId, dstName), line 193
onDrop(w, srcIds, dstId, dstName) ==
    [w EXCEPT !.obs.lastDrop = Some([callback |-> "onDrop", srcIds |-> srcIds,
                                     dstId |-> dstId, dstName |-> dstName,
                                     at |-> EngineSeen(w)])]

\* options.onBreadcrumbDrop(srcIds, path), line 198
onBreadcrumbDrop(w, srcIds, path) ==
    [w EXCEPT !.obs.lastDrop = Some([callback |-> "onBreadcrumbDrop",
                                     srcIds |-> srcIds, path |-> path,
                                     at |-> EngineSeen(w)])]

\* dragItems.value.map(item => item.id)
IdsOf(items) == [i \in 1..Len(items) |-> items[i].id]

\* onDocumentMouseUp invoking the callback before cleanup
drag_onDocumentMouseUpCallbackFirst(w) ==
    IF w.dd.state = "DRAGGING" /\ IsSome(w.dd.dropTargetId)
    THEN drag_cleanup(onDrop(w, IdsOf(w.dd.dragItems), Val(w.dd.dropTargetId), ""))
    ELSE IF w.dd.state = "DRAGGING" /\ IsSome(w.dd.dropBreadcrumbPath)
              /\ w.host.breadcrumbDrop
    THEN drag_cleanup(onBreadcrumbDrop(w, IdsOf(w.dd.dragItems),
                                       Val(w.dd.dropBreadcrumbPath)))
    ELSE drag_cleanup(w)

\* onDocumentMouseUp invoking the callback without cleanup
drag_onDocumentMouseUpNoCleanup(w) ==
    IF w.dd.state = "DRAGGING" /\ IsSome(w.dd.dropTargetId)
    THEN onDrop(w, IdsOf(w.dd.dragItems), Val(w.dd.dropTargetId), "")
    ELSE drag_cleanup(w)

\* onDocumentMouseUp handing the callback the selection at release time
drag_onDocumentMouseUpSelectionNow(w) ==
    IF w.dd.state = "DRAGGING" /\ IsSome(w.dd.dropTargetId)
    THEN LET srcIds == IdsOf(getSelectedItems(w))
             dstId == Val(w.dd.dropTargetId)
             dstItem == findDropTargetItem(w, dstId)
             dstName == IF IsSome(dstItem) THEN Val(dstItem).name ELSE ""
         IN onDrop(drag_cleanup(w), srcIds, dstId, dstName)
    ELSE IF w.dd.state = "DRAGGING" /\ IsSome(w.dd.dropBreadcrumbPath)
              /\ w.host.breadcrumbDrop
    THEN LET srcIds == IdsOf(getSelectedItems(w))
             path == Val(w.dd.dropBreadcrumbPath)
         IN onBreadcrumbDrop(drag_cleanup(w), srcIds, path)
    ELSE drag_cleanup(w)

\* onDocumentMouseUp, lines 186-202, up to the await of the callback's promise
drag_onDocumentMouseUp(w) ==
    IF w.dd.state = "DRAGGING" /\ IsSome(w.dd.dropTargetId)
    THEN LET srcIds == IdsOf(w.dd.dragItems)
             dstId == Val(w.dd.dropTargetId)
             dstItem == findDropTargetItem(w, dstId)
             dstName == IF IsSome(dstItem) THEN Val(dstItem).name ELSE ""
         IN onDrop(drag_cleanup(w), srcIds, dstId, dstName)
    ELSE IF w.dd.state = "DRAGGING" /\ IsSome(w.dd.dropBreadcrumbPath)
              /\ w.host.breadcrumbDrop
    THEN LET srcIds == IdsOf(w.dd.dragItems)
             path == Val(w.dd.dropBreadcrumbPath)
         IN onBreadcrumbDrop(drag_cleanup(w), srcIds, path)
    ELSE drag_cleanup(w)

\* onKeyDown doing nothing
drag_onKeyDownIgnored(w, key) == w

\* onKeyDown, lines 214-218
drag_onKeyDown(w, key) == IF key = "Escape" THEN drag_cleanup(w) ELSE w

\* the item a press resolves to (lines 228-238), or None when a guard returns
PressedItem(w, e) ==
    IF ~IsSome(e.row) THEN None
    ELSE IF ~w.host.container \/ ~Val(e.row).inside THEN None
    ELSE IF Val(e.row).index = -1 THEN None
    ELSE getItemAtIndex(w, Val(e.row).index)

\* the guards of onMouseDown with the selected test left out
drag_MouseDownAcceptedAnyItem(w, e) ==
    /\ e.button = 0 /\ w.host.dragEnabled
    /\ w.dd.state = "IDLE"
    /\ ~e.interactive
    /\ IsSome(PressedItem(w, e))

\* the guards of onMouseDown with the state test left out
drag_MouseDownAcceptedAnyState(w, e) ==
    /\ e.button = 0 /\ w.host.dragEnabled
    /\ ~e.interactive
    /\ IsSome(PressedItem(w, e))
    /\ isItemSelected(w, Val(PressedItem(w, e)).id)

\* the guards of onMouseDown refusing a press while a callback's promise is
\* pending
drag_MouseDownAcceptedOnceSettled(w, e) ==
    /\ e.button = 0 /\ w.host.dragEnabled
    /\ w.dd.state = "IDLE"
    /\ w.obs.promise # "pending"
    /\ ~e.interactive
    /\ IsSome(PressedItem(w, e))
    /\ isItemSelected(w, Val(PressedItem(w, e)).id)

\* the guards of onMouseDown, lines 221-241
drag_MouseDownAccepted(w, e) ==
    /\ e.button = 0 /\ w.host.dragEnabled
    /\ w.dd.state = "IDLE"
    /\ ~e.interactive
    /\ IsSome(PressedItem(w, e))
    /\ isItemSelected(w, Val(PressedItem(w, e)).id)

\* onMouseDown, lines 220-250
drag_onMouseDown(w, e) ==
    IF ~drag_MouseDownAccepted(w, e) THEN w
    ELSE [w EXCEPT !.dd.state = "ARMED",
                   !.dd.mouseDownX = e.clientX,
                   !.dd.mouseDownY = e.clientY,
                   !.doc.listeners = @ \cup {"drag.mousemove", "drag.mouseup",
                                             "drag.keydown"}]

\* the onUnmounted hook, lines 252-256
drag_onUnmounted(w) == IF w.dd.state # "IDLE" THEN drag_cleanup(w) ELSE w

\* shouldSkipAreaSelection, lines 65-74
shouldSkipAreaSelection(w, row) ==
    IF ~w.host.dragEnabled THEN FALSE
    ELSE IF ~IsSome(row) THEN FALSE
    ELSE IF ~w.host.container \/ Val(row).index = -1 THEN FALSE
    ELSE LET item == getItemAtIndex(w, Val(row).index)
         IN IF ~IsSome(item) THEN FALSE ELSE isItemSelected(w, Val(item).id)

(***************************************************************************)
(* The drag-and-drop engine in its page: SpecDD                            *)
(***************************************************************************)
\* the inline styles of document.body before any gesture
BodyStyles == {[userSelect |-> "", cursor |-> ""],
               [userSelect |-> "text", cursor |-> "wait"]}

\* where the pointer is pressed; it moves to (12,18) and (15,18): (12,14) to (12,18) is 4px,
\* (12,14) to (15,18) is exactly 5px, (12,18) to (15,18) is 3px
DragPressPoints == {[x |-> 12, y |-> 14], [x |-> 12, y |-> 18]}


KeyboardKeys == {"Escape", "a"}

DropPaths == {"/docs"}

\* the ids the host's selection can hold
SelectableIds == {ItemIds[i] : i \in 1..MaxItems}

InitDD ==
    /\ area = InitAreaLocals
    /\ dd = InitDragLocals
    /\ \E style \in BodyStyles :
          /\ doc = InitDoc(style.userSelect, style.cursor, 0)
          /\ obs = [InitObs EXCEPT !.bodyBefore = style]
    /\ \E n \in 0..MaxItems, selected \in SUBSET SelectableIds, b \in BOOLEAN :
          host = InitHost(n, selected, b)
    /\ sel = NoSel
    /\ upload = NoUploads

\* the rows an event's target can resolve to when domCount rows are rendered:
\* each rendered row, a row of another list, and none
RowsUnder(domCount) ==
    {Some([index |-> i, inside |-> TRUE]) : i \in 0..(domCount - 1)}
    \cup {Some([index |-> -1, inside |-> FALSE]), None}

\* the rows the container renders
RenderedRowsUnder(domCount) ==
    {Some([index |-> i, inside |-> TRUE]) : i \in 0..(domCount - 1)}

\* the mousedown events the host can hand to onMouseDown: at each pointer
\* position on each rendered row, and one for each other guard that fails
DragMouseDownEvents(domCount) ==
    LET ok(p, r) == [button |-> 0, interactive |-> FALSE, row |-> r,
                     clientX |-> p.x, clientY |-> p.y]
        first == RenderedRowsUnder(Min(domCount, 1))
    IN {ok(p, r) : p \in DragPressPoints, r \in RenderedRowsUnder(domCount)}
       \cup {ok(SomePointer, r) : r \in RowsUnder(0)}
       \cup {[ok(SomePointer, r) EXCEPT !.button = 2] : r \in first}
       \cup {[ok(SomePointer, r) EXCEPT !.interactive = TRUE] : r \in first}

\* the point at which the pointer is over the list and the breadcrumbs, and
\* the point at which it is over neither
OverListPoint == [x |-> 12, y |-> 18]

OffListPoint == [x |-> 15, y |-> 18]

\* the mousemove events the document can receive: over tells what
\* document.elementFromPoint resolves to, a row or a breadcrumb or neither, or
\* the first row inside an element that carries data-drop-path
DragMouseMoveEvents(domCount) ==
    LET overs == {[row |-> r, crumb |-> None] : r \in RowsUnder(domCount)}
                 \cup {[row |-> None, crumb |-> Some(path)] : path \in DropPaths}
                 \cup {[row |-> r, crumb |-> Some(path)] :
                           r \in RenderedRowsUnder(Min(domCount, 1)), path \in DropPaths}
        nothing == [row |-> None, crumb |-> None]
    IN {[left |-> TRUE, clientX |-> OverListPoint.x, clientY |-> OverListPoint.y,
         over |-> o] : o \in overs}
       \cup {[left |-> TRUE, clientX |-> OffListPoint.x, clientY |-> OffListPoint.y,
               over |-> nothing],
              [left |-> FALSE, clientX |-> OffListPoint.x, clientY |-> OffListPoint.y,
               over |-> nothing]}

\* what the mousedown event e was pressed on when the handler received it in w
PressedOn(w, e) ==
    LET item == PressedItem(w, e)
    IN IF ~IsSome(item) THEN "no item"
       ELSE IF isItemSelected(w, Val(item).id) THEN "selected item"
       ELSE "unselected item"

\* obs.lastPress tells of the mousedown event of this step, when it has the
\* left button, is on no interactive control and the engine is enabled, that
\* it was received in IDLE on an unselected item ("unselected item") or on a
\* selected one ("selected item"), or outside IDLE on a selected one
\* ("while busy"); obs.dragPress is the position
\* of the press during which the state left IDLE, obs.armedOnSelected whether
\* that press was on a selected item, obs.bodyBefore the inline cursor and
\* userSelect of document.body at that press
ObserveArm(w0, w1, e) ==
    LET plain == e.button = 0 /\ ~e.interactive /\ w0.host.dragEnabled
        w2 == [w1 EXCEPT !.obs.lastPress =
                   IF plain /\ w0.dd.state = "IDLE"
                      /\ PressedOn(w0, e) = "unselected item"
                   THEN Some("unselected item")
                   ELSE IF plain /\ w0.dd.state = "IDLE"
                           /\ PressedOn(w0, e) = "selected item"
                   THEN Some("selected item")
                   ELSE IF plain /\ w0.dd.state # "IDLE"
                           /\ PressedOn(w0, e) = "selected item"
                   THEN Some("while busy")
                   ELSE None]
    IN IF w0.dd.state = "IDLE" /\ w1.dd.state # "IDLE"
       THEN [w2 EXCEPT !.obs.dragPress = [x |-> e.clientX, y |-> e.clientY],
                       !.obs.armedOnSelected = Some(PressedOn(w0, e) = "selected item"),
                       !.obs.escaped = "no",
                       !.obs.gestureDrops = 0,
                       !.obs.bodyBefore = [cursor |-> w0.doc.cursor,
                                           userSelect |-> w0.doc.userSelect]]
       ELSE w2

\* the host hands the mousedown event e to onMouseDown
DragMouseDownWith(e) ==
    /\ SetWorld(ObserveArm(World, drag_onMouseDown(World, e), e))
    /\ UNCHANGED <<sel, upload>>

DragMouseDown ==
    /\ host.mounted
    /\ \E e \in DragMouseDownEvents(host.domCount) : DragMouseDownWith(e)

\* what the pointer of the mousemove event e is over: a row whose item is a
\* folder or an element carrying data-drop-path ("target"), another row of the
\* list ("files"), or neither
PointerOver(w, e) ==
    IF IsSome(e.over.crumb) THEN "target"
    ELSE IF ~IsSome(e.over.row) \/ Val(e.over.row).index < 0 THEN "nothing"
    ELSE IF ItemAt(Val(e.over.row).index).type = "folder" THEN "target"
    ELSE "files"

\* obs.gestureOver tells what the pointer has been over in the mousemoves of
\* the drag in progress: "target" once it was over a folder row or a
\* data-drop-path element, else "files" once it was over another row
ObserveOver(w0, w1, e) ==
    IF w1.dd.state # "DRAGGING" \/ w0.obs.gestureOver = "target" THEN w1
    ELSE [w1 EXCEPT !.obs.gestureOver =
              IF PointerOver(w0, e) = "nothing" THEN @ ELSE PointerOver(w0, e)]

\* the document receives the mousemove event e
DragDocMouseMoveWith(e) ==
    /\ SetWorld(IF "drag.mousemove" \in doc.listeners
                THEN ObserveOver(World, drag_onDocumentMouseMove(World, e), e)
                ELSE World)
    /\ UNCHANGED <<sel, upload>>

DragDocMouseMove ==
    \E e \in DragMouseMoveEvents(host.domCount) : DragDocMouseMoveWith(e)

\* mouseup on the document
DragDocMouseUp ==
    /\ SetWorld(IF "drag.mouseup" \in doc.listeners
                THEN drag_onDocumentMouseUp(World) ELSE World)
    /\ UNCHANGED <<sel, upload>>

\* obs.escaped tells whether an Escape keydown was received, in ARMED or in
\* DRAGGING, since the last press that armed the engine: "no", "yes", or
\* "on target" when a row or breadcrumb target was active at that time
ObserveEscape(w0, w1, key) ==
    IF key # "Escape" \/ w0.dd.state = "IDLE" \/ w0.obs.escaped # "no" THEN w1
    ELSE [w1 EXCEPT !.obs.escaped =
              IF IsSome(w0.dd.dropTargetId) \/ IsSome(w0.dd.dropBreadcrumbPath)
              THEN "on target" ELSE "yes"]

\* the document receives a keydown event of the key
DragKeyDownWith(key) ==
    /\ SetWorld(IF "drag.keydown" \in doc.listeners
                THEN ObserveEscape(World, drag_onKeyDown(World, key), key)
                ELSE World)
    /\ UNCHANGED <<sel, upload>>

DragKeyDown == \E key \in KeyboardKeys : DragKeyDownWith(key)

\* the host's selection changes (a click, a shortcut, a reload): an item is
\* added to it or removed from it
SetSelection ==
    /\ host.mounted
    /\ \E id \in SelectableIds :
          SetWorld([World EXCEPT !.host.selected =
                        IF id \in @ THEN @ \ {id} ELSE @ \cup {id}])
    /\ UNCHANGED <<sel, upload>>

\* the host's list gains or loses its last item and is rendered again
ItemsChange ==
    /\ host.mounted
    /\ \E n \in {host.itemCount - 1, host.itemCount + 1} \cap (0..MaxItems) :
          /\ SetWorld([World EXCEPT !.host.itemCount = n, !.host.domCount = n])
    /\ UNCHANGED <<sel, upload>>

\* the host switches options.enabled
SetDragEnabled ==
    /\ host.mounted
    /\ SetWorld([World EXCEPT !.host.dragEnabled = ~@])
    /\ UNCHANGED <<sel, upload>>

\* the container element is removed from or put back into the mounted component
DragSetContainerRef ==
    /\ host.mounted
    /\ SetWorld([World EXCEPT !.host.container = ~@])
    /\ UNCHANGED <<sel, upload>>

\* the component is unmounted: the onUnmounted hook runs
DragUnmount ==
    /\ host.mounted
    /\ SetWorld(drag_onUnmounted([World EXCEPT !.host.mounted = FALSE,
                                               !.host.container = FALSE]))
    /\ UNCHANGED <<sel, upload>>

NextDD ==
    \/ DragMouseDown
    \/ DragDocMouseMove
    \/ DragDocMouseUp
    \/ DragKeyDown
    \/ SetSelection
    \/ ItemsChange
    \/ SetDragEnabled
    \/ DragSetContainerRef
    \/ DragUnmount

SpecDD == InitDD /\ [][NextDD]_vars

(***************************************************************************)
(* The drag-and-drop engine and the promises of its callbacks: SpecDrop    *)
(***************************************************************************)
\* a page with unstyled body whose host supplies onBreadcrumbDrop
InitDrop ==
    /\ area = InitAreaLocals
    /\ dd = InitDragLocals
    /\ doc = InitDoc("", "", 0)
    /\ \E n \in 0..MaxItems, selected \in SUBSET SelectableIds :
          host = InitHost(n, selected, TRUE)
    /\ obs = InitObs
    /\ sel = NoSel
    /\ upload = NoUploads

\* obs.gestureDrops counts the callbacks invoked since the last press that
\* armed the engine (2 stands for two or more); obs.promise is the state of the
\* promise the last callback returned; obs.earlier is "pending" while the
\* promise of a callback before the last is not settled yet
ObserveDrop(w) ==
    IF ~IsSome(w.obs.lastDrop) THEN w
    ELSE [w EXCEPT !.obs.gestureDrops = Min(@ + 1, 2), !.obs.promise = "pending",
                   !.obs.earlier = IF w.obs.promise = "pending" THEN "pending" ELSE @]

\* mouseup on the document; a callback invoked returns a promise, which
\* onDocumentMouseUp awaits (lines 193 and 198)
DropDocMouseUp ==
    /\ SetWorld(IF "drag.mouseup" \in doc.listeners
                THEN ObserveDrop(drag_onDocumentMouseUp(World)) ELSE World)
    /\ UNCHANGED <<sel, upload>>

\* the promise awaited by onDocumentMouseUp is fulfilled or rejected: the
\* function has nothing after its await, a rejection rejects its own promise,
\* which the event dispatch drops
DropSettles ==
    /\ \/ /\ obs.promise = "pending"
          /\ \E outcome \in {"fulfilled", "rejected"} :
                SetWorld([World EXCEPT !.obs.promise = outcome])
       \/ /\ obs.earlier = "pending"
          /\ SetWorld([World EXCEPT !.obs.earlier = "none"])
    /\ UNCHANGED <<sel, upload>>

NextDrop ==
    \/ DragMouseDown
    \/ DragDocMouseMove
    \/ DropDocMouseUp
    \/ DropSettles
    \/ DragKeyDown
    \/ SetSelection
    \/ ItemsChange
    \/ SetDragEnabled
    \/ DragSetContainerRef
    \/ DragUnmount

SpecDrop == InitDrop /\ [][NextDrop]_vars

(***************************************************************************)
(* Both engines on one list: SpecBoth                                      *)
(*                                                                         *)
(* The host hands every mousedown on the container to both onMouseDown     *)
(* handlers and passes shouldSkipAreaSelection as the area selection's     *)
(* options.canDrag.                                                        *)
(***************************************************************************)
\* where the pointer is pressed; it moves to OverListPoint, 4px away, and to
\* OffListPoint, 5px away
BothPressPoint == [x |-> 12, y |-> 14]

\* which engine's listener the element or the document runs first
BothOrders == {"area first", "drag first"}

InitBoth ==
    /\ area = InitAreaLocals
    /\ dd = InitDragLocals
    /\ doc = InitDoc("", "", 0)
    /\ \E n \in 0..MaxItems, selected \in SUBSET SelectableIds :
          host = InitHost(n, selected, FALSE)
    /\ obs = InitObs
    /\ sel = NoSel
    /\ upload = NoUploads

\* the mousedown events the container can receive: on each rendered row, on
\* the empty space of the container, on a row outside the container, and with
\* another button or on an interactive control, on the first row and on the
\* empty space.  inside is container.contains(target), row the element
\* target.closest(itemSelector) finds
BothMouseDownEvents(domCount) ==
    LET ok(r, inside) == [button |-> 0, interactive |-> FALSE, inside |-> inside,
                          row |-> r, clientX |-> BothPressPoint.x,
                          clientY |-> BothPressPoint.y]
        places == {ok(r, TRUE) : r \in RenderedRowsUnder(Min(domCount, 1)) \cup {None}}
    IN {ok(r, TRUE) : r \in RenderedRowsUnder(domCount) \cup {None}}
       \cup {ok(Some([index |-> -1, inside |-> FALSE]), FALSE)}
       \cup {[e EXCEPT !.button = 2] : e \in places}
       \cup {[e EXCEPT !.interactive = TRUE] : e \in places}

\* the mousemove events the document can receive
BothMouseMoveEvents(domCount) ==
    LET nothing == [row |-> None, crumb |-> None]
        at(p, left, o) == [left |-> left, clientX |-> p.x, clientY |-> p.y,
                           ctrlKey |-> FALSE, metaKey |-> FALSE, over |-> o]
    IN {at(OverListPoint, TRUE, [row |-> r, crumb |-> None]) :
            r \in RenderedRowsUnder(Min(domCount, 1))}
       \cup {at(OffListPoint, TRUE, nothing), at(OffListPoint, FALSE, nothing)}

\* the mousedown event e as the area selection's onMouseDown reads it in w:
\* options.canDrag(target) is shouldSkipAreaSelection(target)
AreaEventOf(w, e) ==
    [button |-> e.button, interactive |-> e.interactive, inside |-> e.inside,
     canDrag |-> shouldSkipAreaSelection(w, e.row),
     clientX |-> e.clientX, clientY |-> e.clientY]

\* the document-level listeners of each engine
AreaListeners(d) == d.listeners \cap {"area.mouseup", "area.mousemove"}

DragListeners(d) == d.listeners \cap {"drag.mousemove", "drag.mouseup", "drag.keydown"}

\* the conditions under which a mousedown is no valid start of a gesture of
\* the area selection (lines 293-301 of part_008) and of the drag and drop
\* (lines 221-232 of useFileDragDrop.ts)
InvalidForArea(w, e) ==
    \/ e.button # 0 \/ ~w.host.enabled
    \/ e.interactive
    \/ ~e.inside
    \/ shouldSkipAreaSelection(w, e.row)

InvalidForDrag(w, e) ==
    \/ e.button # 0 \/ ~w.host.dragEnabled
    \/ e.interactive
    \/ ~e.inside

\* obs.lastPress tells of the mousedown event of this step for which engines
\* it was no valid start; the runs of processSelection are not observed here
ObserveStart(w0, w1, e) ==
    [w1 EXCEPT !.obs.lastPress =
                   IF InvalidForArea(w0, e) /\ InvalidForDrag(w0, e)
                   THEN Some("invalid for both")
                   ELSE IF InvalidForArea(w0, e) THEN Some("invalid for area")
                   ELSE IF InvalidForDrag(w0, e) THEN Some("invalid for drag")
                   ELSE None]

Unobserved(w) == [w EXCEPT !.obs.lastRun = None, !.obs.sessionEmitted = None]

\* the container receives the mousedown event e
BothMouseDownWith(e, order) ==
    /\ LET areaHandler(w) == onMouseDown(w, AreaEventOf(w, e))
           dragHandler(w) == drag_onMouseDown(w, e)
       IN SetWorld(ObserveStart(World,
                                IF order = "area first"
                                THEN dragHandler(areaHandler(World))
                                ELSE areaHandler(dragHandler(World)), e))
    /\ UNCHANGED <<sel, upload>>

BothMouseDown ==
    /\ host.mounted /\ host.container
    /\ \E e \in BothMouseDownEvents(host.domCount), order \in BothOrders :
          BothMouseDownWith(e, order)

\* obs.lastCancel tells of the mousemove of this step, when it had no button
\* held, that it found the drag and drop in DRAGGING with a drop target active
\* ("drop target"), or else the area selection dragging ("box"), or neither
ObserveCancel(w0, w1, e) ==
    IF e.left THEN w1
    ELSE [w1 EXCEPT !.obs.lastCancel =
              IF /\ w0.dd.state = "DRAGGING"
                 /\ (IsSome(w0.dd.dropTargetId) \/ IsSome(w0.dd.dropBreadcrumbPath))
              THEN Some("drop target")
              ELSE IF w0.area.dragging THEN Some("box")
              ELSE Some("neither")]

\* the document receives the mousemove event e: the listeners attached when it
\* is dispatched run, in the order of their registration, which doc.listeners
\* does not keep
BothDocMouseMoveWith(e, order) ==
    /\ LET areaHandler(w) == IF "area.mousemove" \in doc.listeners
                             THEN onDocumentMouseMove(w, e) ELSE w
           dragHandler(w) == IF "drag.mousemove" \in doc.listeners
                             THEN drag_onDocumentMouseMove(w, e) ELSE w
       IN SetWorld(ObserveCancel(World,
                                 Unobserved(IF order = "area first"
                                            THEN dragHandler(areaHandler(World))
                                            ELSE areaHandler(dragHandler(World))), e))
    /\ UNCHANGED <<sel, upload>>

BothDocMouseMove ==
    \E e \in BothMouseMoveEvents(host.domCount), order \in BothOrders :
        BothDocMouseMoveWith(e, order)

\* the document receives a mouseup event
BothDocMouseUpWith(order) ==
    /\ LET areaHandler(w) == IF "area.mouseup" \in doc.listeners
                             THEN onDocumentMouseUp(w) ELSE w
           dragHandler(w) == IF "drag.mouseup" \in doc.listeners
                             THEN drag_onDocumentMouseUp(w) ELSE w
       IN SetWorld(IF order = "area first"
                   THEN dragHandler(areaHandler(World))
                   ELSE areaHandler(dragHandler(World)))
    /\ UNCHANGED <<sel, upload>>

BothDocMouseUp == \E order \in BothOrders : BothDocMouseUpWith(order)

\* the document receives a keydown event of the key
BothKeyDownWith(key) ==
    /\ SetWorld(IF "drag.keydown" \in doc.listeners
                THEN drag_onKeyDown(World, key) ELSE World)
    /\ UNCHANGED <<sel, upload>>

BothKeyDown == \E key \in KeyboardKeys : BothKeyDownWith(key)

\* the browser runs a pending animation-frame callback
BothAnimationFrame ==
    /\ \E id \in doc.rafQueue :
          SetWorld(Unobserved(onAnimationFrame([World EXCEPT !.doc.rafQueue = @ \ {id}])))
    /\ UNCHANGED <<sel, upload>>

\* the host switches the options.enabled of one engine
BothSetEnabled ==
    /\ host.mounted
    /\ \/ SetWorld([World EXCEPT !.host.enabled = ~@])
       \/ SetWorld([World EXCEPT !.host.dragEnabled = ~@])
    /\ UNCHANGED <<sel, upload>>

\* the component is unmounted: both onUnmounted hooks run
BothUnmount ==
    /\ host.mounted
    /\ \E order \in BothOrders :
          LET w == [World EXCEPT !.host.mounted = FALSE, !.host.container = FALSE]
          IN SetWorld(IF order = "area first"
                      THEN drag_onUnmounted(cleanup(w))
                      ELSE cleanup(drag_onUnmounted(w)))
    /\ UNCHANGED <<sel, upload>>

NextBoth ==
    \/ BothMouseDown
    \/ BothDocMouseMove
    \/ BothDocMouseUp
    \/ BothKeyDown
    \/ BothAnimationFrame
    \/ SetSelection
    \/ BothSetEnabled
    \/ BothUnmount

SpecBoth == InitBoth /\ [][NextBoth]_vars

(***************************************************************************)
(* The area-selection engine and its animation frames: SpecFrame           *)
(***************************************************************************)
\* where the pointer is pressed, and where it moves to: (15,18) is 5px from
\* (12,14) and 3px from (12,18), (15,14) is 3px from (12,14) and 5px from (12,18)
FramePressPoints == {[x |-> 12, y |-> 14], [x |-> 12, y |-> 18]}

FrameMovePoints == {[x |-> 15, y |-> 18], [x |-> 15, y |-> 14]}

InitFrame ==
    /\ area = InitAreaLocals
    /\ dd = InitDragLocals
    /\ doc = InitDoc("", "", 0)
    /\ \E n \in 0..MaxItems : host = InitHost(n, {}, FALSE)
    /\ obs = InitObs
    /\ sel = NoSel
    /\ upload = NoUploads

\* the mousedown events: a press with the left button on the container
FrameMouseDownEvents ==
    {[button |-> 0, interactive |-> FALSE, inside |-> TRUE, canDrag |-> FALSE,
      clientX |-> p.x, clientY |-> p.y] : p \in FramePressPoints}

\* the mousemove events: with the left button held at each point, with Ctrl
\* held at the first of them, and one with no button held
FrameMouseMoveEvents ==
    LET at(p, left, c) == [left |-> left, clientX |-> p.x, clientY |-> p.y,
                           ctrlKey |-> c, metaKey |-> FALSE]
        first == [x |-> 15, y |-> 18]
    IN {at(p, TRUE, FALSE) : p \in FrameMovePoints}
       \cup {at(first, TRUE, TRUE), at(first, FALSE, FALSE)}

\* What is observed of a step that took the page from w0 to w1:
\*   obs.press, obs.pressWhileDragging   the position of the last accepted
\*       press and whether the engine was dragging when it was accepted;
\*   obs.lastMove    while dragging, the latest mousemove with the left button
\*       held that the engine received, since the threshold was crossed, with
\*       enabled true and the container present;
\*   obs.recapture   "pending" from an itemCount change received while
\*       dragging with the container present until the next animation frame;
\*   obs.lastCancel  "frame pending" when this step ended a drag session for
\*       which a recomputation was scheduled and had not run.
\* kind is "mousedown", "mousemove", "itemCount", "frame" or "other"
FrameObserve(w0, w1, kind, e) ==
    LET dragging == w1.area.dragging
    IN [w1 EXCEPT
          !.obs.sessionEmitted = None,
          !.obs.press = IF kind = "mousedown" /\ MouseDownAccepted(w0, e)
                        THEN [x |-> e.clientX, y |-> e.clientY] ELSE @,
          !.obs.pressWhileDragging =
              IF kind = "mousedown" /\ MouseDownAccepted(w0, e)
              THEN w0.area.dragging ELSE @,
          !.obs.lastMove =
              IF ~dragging THEN None
              ELSE IF kind = "mousemove" /\ e.left /\ w0.host.enabled
                      /\ w0.host.container
              THEN Some([clientX |-> e.clientX, clientY |-> e.clientY,
                         ctrlKey |-> e.ctrlKey])
              ELSE @,
          !.obs.recapture =
              IF ~dragging \/ kind = "frame" THEN "none"
              ELSE IF kind = "itemCount" /\ w0.area.dragging /\ w0.host.container
              THEN "pending"
              ELSE @,
          !.obs.lastCancel =
              IF IsSome(w0.area.rafId) /\ w0.area.dragging /\ ~dragging
              THEN Some("frame pending") ELSE @]

\* an event that carries nothing
NoEvent == [left |-> FALSE]

\* mousedown on the container element
FrameMouseDownWith(e) ==
    /\ host.mounted /\ host.container
    /\ SetWorld(FrameObserve(World, onMouseDown(World, e), "mousedown", e))
    /\ UNCHANGED <<sel, upload>>

FrameMouseDown == \E e \in FrameMouseDownEvents : FrameMouseDownWith(e)

\* mousemove on the document
FrameDocMouseMoveWith(e) ==
    /\ SetWorld(FrameObserve(World,
                             IF "area.mousemove" \in doc.listeners
                             THEN onDocumentMouseMove(World, e) ELSE World,
                             "mousemove", e))
    /\ UNCHANGED <<sel, upload>>

FrameDocMouseMove == \E e \in FrameMouseMoveEvents : FrameDocMouseMoveWith(e)

\* mouseup on the document
FrameDocMouseUp ==
    /\ SetWorld(FrameObserve(World,
                             IF "area.mouseup" \in doc.listeners
                             THEN onDocumentMouseUp(World) ELSE World,
                             "other", NoEvent))
    /\ UNCHANGED <<sel, upload>>

\* the browser runs a pending animation-frame callback
FrameAnimationFrame ==
    /\ \E id \in doc.rafQueue :
          \E ran \in {onAnimationFrame([World EXCEPT !.doc.rafQueue = @ \ {id}])} :
              SetWorld(FrameObserve(World, ran, "frame", NoEvent))
    /\ UNCHANGED <<sel, upload>>

\* the host's list gains or loses its last item: the watcher runs before the
\* rows are rendered again, then the rows are those of the new list
FrameItemCountChangeTo(n) ==
    /\ host.mounted
    /\ LET w == [World EXCEPT !.host.itemCount = n]
       IN SetWorld(FrameObserve(World,
                                [onItemCountChange(w) EXCEPT !.host.domCount = n],
                                "itemCount", NoEvent))
    /\ UNCHANGED <<sel, upload>>

FrameItemCountChange ==
    \E n \in {host.itemCount - 1, host.itemCount + 1} \cap (0..MaxItems) :
        FrameItemCountChangeTo(n)

\* the host switches options.enabled, or the container element is removed
\* from or put back into the mounted component
FrameHostChange ==
    /\ host.mounted
    /\ \/ SetWorld([World EXCEPT !.host.enabled = ~@])
       \/ SetWorld([World EXCEPT !.host.container = ~@])
    /\ UNCHANGED <<sel, upload>>

\* onUnmounted, lines 320-322
FrameUnmount ==
    /\ host.mounted
    /\ SetWorld(FrameObserve(World,
                             cleanup([World EXCEPT !.host.mounted = FALSE,
                                                   !.host.container = FALSE]),
                             "other", NoEvent))
    /\ UNCHANGED <<sel, upload>>

NextFrame ==
    \/ FrameMouseDown
    \/ FrameDocMouseMove
    \/ FrameDocMouseUp
    \/ FrameAnimationFrame
    \/ FrameItemCountChange
    \/ FrameHostChange
    \/ FrameUnmount

SpecFrame == InitFrame /\ [][NextFrame]_vars

\* most items of the host's list where the frame callback is fair
FairItems == 1

\* The same page with a list of at most FairItems items, enabled throughout,
\* under the one gesture that starts a drag: a press at (12, 14), then
\* mousemoves at (15, 18), 5px away, with or without the button
InitFair ==
    /\ area = InitAreaLocals
    /\ dd = InitDragLocals
    /\ doc = InitDoc("", "", 0)
    /\ \E n \in 0..FairItems : host = InitHost(n, {}, FALSE)
    /\ obs = InitObs
    /\ sel = NoSel
    /\ upload = NoUploads

FairMouseDown ==
    \E e \in {d \in FrameMouseDownEvents : d.clientX = 12 /\ d.clientY = 14} :
        FrameMouseDownWith(e)

FairDocMouseMove ==
    \E e \in {m \in FrameMouseMoveEvents :
                 m.clientX = 15 /\ m.clientY = 18 /\ ~m.ctrlKey} :
        FrameDocMouseMoveWith(e)

\* the container element is removed from or put back into the component
FairContainerChange ==
    /\ host.mounted
    /\ SetWorld([World EXCEPT !.host.container = ~@])
    /\ UNCHANGED <<sel, upload>>

\* the host's list gains or loses its last item
FairItemCountChange ==
    \E n \in {host.itemCount - 1, host.itemCount + 1} \cap (0..FairItems) :
        FrameItemCountChangeTo(n)

NextFair ==
    \/ FairMouseDown
    \/ FairDocMouseMove
    \/ FrameDocMouseUp
    \/ FrameAnimationFrame
    \/ FairItemCountChange
    \/ FairContainerChange
    \/ FrameUnmount

\* The browser runs every requested animation-frame callback that is not
\* cancelled: the callback is weakly fair
FairSpecFrame ==
    InitFair /\ [][NextFair]_vars /\ WF_vars(FrameAnimationFrame)

(***************************************************************************)
(* The upload store (useUploadStore): SpecUpload                           *)
(*                                                                         *)
(* upload.tasks is state.tasks; task k (1-based) has the id upload-k.      *)
(* Of a task the fields the control flow reads are kept: sessionId,        *)
(* totalChunks, uploadedChunks, status and error.  bytesUploaded, speed    *)
(* and the time stamps (lines 135-145) are display values.                 *)
(* upload.chunks[k] is the processChunks call addTask starts for task k:   *)
(* awaiting api.post for chunk i, or returned.  upload.deletes[k] counts   *)
(* the cancelTask calls of task k that await api.delete.                   *)
(* upload.requests[k] counts the chunk requests started for task k.        *)
(***************************************************************************)
\* most tasks added to the store
MaxTasks == 1

\* most chunks of an upload session
MaxChunks == 3

\* session ids the server hands out; the empty one is falsy at line 168
SessionIds == {"", "session"}

\* the upload sessions addTask is called with
UploadSessions ==
    {[id |-> sid, total_chunks |-> t, uploaded_chunks |-> u] :
        sid \in SessionIds, t \in 0..MaxChunks, u \in 0..MaxChunks}

\* what the server answers to the upload of chunk i of a session of total chunks
ChunkResults(i, total) ==
    {[uploaded_chunks |-> u, is_complete |-> c] : u \in (i + 1)..total, c \in BOOLEAN}

Returned == [pc |-> "returned", i |-> 0]

\* processChunks from the for-loop's test with the loop variable at i, to
\* the await of line 129 or the return (lines 119-132 and 153)
processChunksLoop(s, k, i) ==
    LET task == s.tasks[k]
    IN IF i < task.totalChunks
       THEN IF task.status = "cancelled"
            THEN [s EXCEPT !.chunks[k] = Returned]
            ELSE [s EXCEPT !.chunks[k] = [pc |-> "awaiting", i |-> i],
                           !.requests[k] = @ + 1]
       ELSE [s EXCEPT !.tasks[k].status = "completed", !.chunks[k] = Returned]

\* processChunks, lines 114-160, to its first await
processChunks(s, k) == processChunksLoop(s, k, s.tasks[k].uploadedChunks)

\* processChunks resumed with the result of api.post, lines 134-151
processChunksResolved(s, k, result) ==
    LET i == s.chunks[k].i
        s1 == [s EXCEPT !.tasks[k].uploadedChunks = result.uploaded_chunks]
    IN IF result.is_complete
       THEN [s1 EXCEPT !.tasks[k].status = "completed", !.chunks[k] = Returned]
       ELSE processChunksLoop(s1, k, i + 1)

\* processChunks resumed with api.post rejected, lines 154-159
processChunksRejected(s, k) ==
    IF s.tasks[k].status # "cancelled"
    THEN [s EXCEPT !.tasks[k].status = "failed",
                   !.tasks[k].error = "upload.failed",
                   !.chunks[k] = Returned]
    ELSE [s EXCEPT !.chunks[k] = Returned]

\* addTask, lines 90-112
addTask(s, session) ==
    LET k == Len(s.tasks) + 1
        task == [id |-> k, sessionId |-> session.id,
                 totalChunks |-> session.total_chunks,
                 uploadedChunks |-> session.uploaded_chunks,
                 status |-> "uploading", error |-> ""]
    IN processChunks([s EXCEPT !.tasks = Append(@, task),
                               !.drawerOpen = TRUE,
                               !.chunks = Append(@, Returned),
                               !.deletes = Append(@, 0),
                               !.requests = Append(@, 0)],
                     k)

\* cancelTask, lines 162-175, to its await
cancelTask(s, k) ==
    LET s1 == [s EXCEPT !.tasks[k].status = "cancelled"]
    IN IF s.tasks[k].sessionId # ""
       THEN [s1 EXCEPT !.deletes[k] = @ + 1]
       ELSE s1

InitUpload ==
    /\ InitIdle
    /\ sel = NoSel

\* the page adds a task for a file and its upload session
UploadAddTask ==
    /\ Len(upload.tasks) < MaxTasks
    /\ \E session \in UploadSessions : upload' = addTask(upload, session)
    /\ UNCHANGED <<area, dd, doc, host, obs, sel>>

\* the server answers a chunk request
UploadChunkResolves ==
    /\ \E k \in DOMAIN upload.tasks :
          /\ upload.chunks[k].pc = "awaiting"
          /\ \E result \in ChunkResults(upload.chunks[k].i, upload.tasks[k].totalChunks) :
                upload' = processChunksResolved(upload, k, result)
    /\ UNCHANGED <<area, dd, doc, host, obs, sel>>

\* a chunk request fails
UploadChunkRejects ==
    /\ \E k \in DOMAIN upload.tasks :
          /\ upload.chunks[k].pc = "awaiting"
          /\ upload' = processChunksRejected(upload, k)
    /\ UNCHANGED <<area, dd, doc, host, obs, sel>>

\* the user cancels a task; one cancelTask call of a task awaits at a time
UploadCancelTask ==
    /\ \E k \in DOMAIN upload.tasks :
          /\ upload.deletes[k] = 0
          /\ upload' = cancelTask(upload, k)
    /\ UNCHANGED <<area, dd, doc, host, obs, sel>>

\* api.delete settles, fulfilled or rejected (lines 169-173)
UploadDeleteSettles ==
    /\ \E k \in DOMAIN upload.tasks :
          /\ upload.deletes[k] > 0
          /\ upload' = [upload EXCEPT !.deletes[k] = @ - 1]
    /\ UNCHANGED <<area, dd, doc, host, obs, sel>>

NextUpload ==
    \/ UploadAddTask
    \/ UploadChunkResolves
    \/ UploadChunkRejects
    \/ UploadCancelTask
    \/ UploadDeleteSettles

SpecUpload == InitUpload /\ [][NextUpload]_vars

(***************************************************************************)
(* Properties                                                              *)
(***************************************************************************)

\* a step enters dragging, appends the floating box or invokes onSelectionChange
StartsDragSession ==
    \/ ~area.dragging /\ area.dragging'
    \/ ~doc.box /\ doc.box'
    \/ IsSome(obs.lastCall')

BruteForceSet(cands, start, end, count) ==
    LET startX == Min(start.x, end.x)
        startY == Min(start.y, end.y)
        endX == Max(start.x, end.x)
        endY == Max(start.y, end.y)
    IN {el.index : el \in {c \in UNION {Range(row) : row \in Range(cands)} :
                             /\ c.x <= endX /\ c.right >= startX
                             /\ c.y <= endY /\ c.bottom >= startY
                             /\ c.index < count}}

\* the candidate rows are sorted ascending by y
SortedByY(cands) ==
    \A i \in 1..(Len(cands) - 1) : cands[i][1].y <= cands[i + 1][1].y

\* no candidate starts above its row's first candidate or reaches below the
\* top of the next row
RowsDoNotOverlap(cands) ==
    /\ \A i \in 1..Len(cands) : \A el \in Range(cands[i]) : el.y >= cands[i][1].y
    /\ \A i \in 1..(Len(cands) - 1) :
          \A el \in Range(cands[i]) : el.bottom <= cands[i + 1][1].y

SelCandidates == updateCandidates(sel.in.layout)

SelNarrowedEqualsBruteForce ==
    Range(Val(sel.fwd)) = BruteForceSet(SelCandidates, sel.in.a, sel.in.b, sel.in.count)

\* C2 as stated: for every candidate-row list sorted ascending by y and every
\* drag rectangle, the narrowed scan selects the index set of the brute-force scan.
C2_NarrowingOnSortedRows ==
    (IsSome(sel.fwd) /\ SortedByY(SelCandidates)) => SelNarrowedEqualsBruteForce

\* the narrowed scan is exact on sorted lists whose rows do not overlap
\* vertically: the rows of a table or of a regular grid
C2_Narrowing ==
    (IsSome(sel.fwd) /\ SortedByY(SelCandidates) /\ RowsDoNotOverlap(SelCandidates))
        => SelNarrowedEqualsBruteForce

\* three non-overlapping rows of which the rectangle starts inside
\* the second, so that the scan starts at a row above the first row at or below it
C2_Witness ==
    /\ IsSome(sel.fwd)
    /\ Len(SelCandidates) = 3 /\ RowsDoNotOverlap(SelCandidates)
    /\ Min(sel.in.a.y, sel.in.b.y) = 5 /\ Max(sel.in.a.y, sel.in.b.y) = 9
    /\ Range(Val(sel.fwd)) = {1, 2}

\* C3: a drag from A to B and a drag from B to A over the same candidates and
\* itemCount select the same index set.
C3_Symmetry ==
    (IsSome(sel.fwd) /\ IsSome(sel.bwd)) => Range(Val(sel.fwd)) = Range(Val(sel.bwd))

\* C3 witness: both drags done, between two points that differ in x and in y,
\* with a non-empty selection
C3_Witness ==
    /\ IsSome(sel.fwd) /\ IsSome(sel.bwd)
    /\ sel.in.a.x > sel.in.b.x /\ sel.in.a.y < sel.in.b.y
    /\ Val(sel.fwd) # <<>>

\* C4: a processSelection run invokes onSelectionChange exactly when the index
\* list it computed differs from the list last emitted in this drag session
\* (none at the start of the session), so of two consecutive runs computing the
\* same list only the first invokes it.
C4_Dedup ==
    /\ IsSome(obs.lastRun) =>
          (Val(obs.lastRun).emitted
              <=> Val(obs.lastRun).previous # Some(Val(obs.lastRun).computed))
    /\ IsSome(obs.lastCall) <=> (IsSome(obs.lastRun) /\ Val(obs.lastRun).emitted)
    /\ IsSome(obs.lastCall) => Val(obs.lastCall).indices = Val(obs.lastRun).computed

\* C4 witness: a run that computed the non-empty list emitted before it and did
\* not invoke the callback
C4_Witness ==
    /\ IsSome(obs.lastRun)
    /\ ~Val(obs.lastRun).emitted
    /\ Val(obs.lastRun).computed # <<>>
    /\ Val(obs.lastRun).previous = Some(Val(obs.lastRun).computed)

\* C5: every index passed to onSelectionChange is below itemCount as it is at
\* the call.
C5_InRange ==
    IsSome(obs.lastCall) =>
        \A i \in Range(Val(obs.lastCall).indices) : i < Val(obs.lastCall).itemCount

\* C5 witness: a call made after itemCount dropped, while a cached candidate
\* with an index at or above itemCount lies in the drag rectangle
C5_Witness ==
    /\ IsSome(obs.lastCall)
    /\ Val(obs.lastCall).indices # <<>>
    /\ Val(obs.lastCall).itemCount = host.itemCount
    /\ \E row \in Range(area.selectCandidates) : \E el \in Range(row) :
          /\ el.index >= host.itemCount
          /\ LET r == RectOf(Val(area.drawArea.start), Val(area.drawArea.end))
             IN Intersects(el, r.startX, r.startY, r.endX, r.endY)

\* C6: 5 rows at y = 0, 30, 60, 90, 120, each 25 high and spanning x = 10, with
\* itemCount 5: the rectangle from (10, 10) to (10, 95) selects exactly 0, 1, 2, 3.
C6_Scenario ==
    (sel.in = ScenarioInput /\ IsSome(sel.fwd)) => Val(sel.fwd) = <<0, 1, 2, 3>>

\* C6 witness: the scenario's drag has been applied
C6_Witness ==
    /\ sel.in = ScenarioInput
    /\ IsSome(sel.fwd)
    /\ 4 \notin Range(Val(sel.fwd))

\* the distance of the mousemove event e from the press that armed the engine
DragNearPress(e) == Within5px(e, obs.dragPress)

\* C7: a press on a row whose item is not selected leaves the state and the
\* document's listeners as they were, and whenever the engine is armed or
\* dragging, or a drop callback is invoked, the press that armed it was on a
\* selected item
C7_ArmedBySelectedPress ==
    (dd.state # "IDLE" \/ IsSome(obs.lastDrop)) => obs.armedOnSelected = Some(TRUE)

C7_UnselectedPressIgnored ==
    [][\A e \in DragMouseDownEvents(host.domCount) :
          (/\ dd' # dd \/ doc'.listeners # doc.listeners \/ obs'.lastDrop # None
           /\ PressedOn(World, e) = "unselected item")
             => ~DragMouseDownWith(e)]_vars

C7_PreSelection ==
    /\ C7_ArmedBySelectedPress
    /\ [][C7_ArmedBySelectedPress']_vars
    /\ C7_UnselectedPressIgnored

\* a press on an unselected item, otherwise acceptable, has just been handled
C7_Witness ==
    /\ obs.lastPress = Some("unselected item")
    /\ dd.state = "IDLE" /\ doc.listeners = {}

\* C8: the state changes only IDLE->ARMED in a mousedown, ARMED->DRAGGING in a
\* mousemove with the button held at 5px or more from the press, and
\* ARMED->IDLE or DRAGGING->IDLE in a mouseup, an Escape keydown, a mousemove
\* without the button, or the unmount; a mousedown received while the state is
\* not IDLE changes neither the state nor mouseDownX and mouseDownY
C8_StateMachine ==
    [][/\ dd'.state # dd.state =>
             \/ /\ dd.state = "IDLE" /\ dd'.state = "ARMED"
                /\ DragMouseDown
             \/ /\ dd.state = "ARMED" /\ dd'.state = "DRAGGING"
                /\ \E e \in DragMouseMoveEvents(host.domCount) :
                      e.left /\ ~DragNearPress(e) /\ DragDocMouseMoveWith(e)
             \/ /\ dd.state \in {"ARMED", "DRAGGING"} /\ dd'.state = "IDLE"
                /\ \/ DragDocMouseUp
                   \/ DragKeyDownWith("Escape")
                   \/ \E e \in DragMouseMoveEvents(host.domCount) :
                         ~e.left /\ DragDocMouseMoveWith(e)
                   \/ DragUnmount
       /\ (/\ dd.state # "IDLE"
           /\ \/ dd'.state # dd.state
              \/ dd'.mouseDownX # dd.mouseDownX
              \/ dd'.mouseDownY # dd.mouseDownY)
             => \A e \in DragMouseDownEvents(host.domCount) : ~DragMouseDownWith(e)]_vars

\* a press that passes every other guard has just been handled while dragging
C8_Witness ==
    obs.lastPress = Some("while busy") /\ dd.state = "DRAGGING"

\* what the claim requires of a step that handles the mousemove event e in
\* ARMED: nearer than 5px to the press the state stays ARMED and isDragging,
\* dragItems, previewPos, the drop targets and the body's cursor and userSelect
\* stay as they were; otherwise the state becomes DRAGGING
ArmedMoveOutcome(e) ==
    IF DragNearPress(e)
    THEN /\ dd'.state = "ARMED"
         /\ ~dd'.isDragging /\ dd'.dragItems = <<>>
         /\ dd'.previewPos = dd.previewPos
         /\ dd'.dropTargetId = dd.dropTargetId
         /\ dd'.dropBreadcrumbPath = dd.dropBreadcrumbPath
         /\ doc'.cursor = doc.cursor /\ doc'.userSelect = doc.userSelect
    ELSE dd'.state = "DRAGGING"

\* C9 as stated: every mousemove handled in ARMED has that outcome
C9_ThresholdAnyMove ==
    [][\A e \in DragMouseMoveEvents(host.domCount) :
          (dd.state = "ARMED" /\ ~ArmedMoveOutcome(e)) => ~DragDocMouseMoveWith(e)]_vars

\* C9 for mousemoves with the left button held
C9_Threshold ==
    [][\A e \in DragMouseMoveEvents(host.domCount) :
          (dd.state = "ARMED" /\ e.left /\ ~ArmedMoveOutcome(e))
             => ~DragDocMouseMoveWith(e)]_vars

\* the drag started by a move of exactly 5px from the press at (12,14)
C9_Witness ==
    /\ dd.state = "DRAGGING" /\ dd.isDragging
    /\ obs.dragPress = [x |-> 12, y |-> 14]
    /\ dd.previewPos = [x |-> 15 + 12, y |-> 18 + 12]

\* C10: dropTargetId is never the id of an item of dragItems, and onDrop is
\* never invoked with a dstId that is among its srcIds
C10_SelfDropRejected ==
    /\ \A i \in 1..Len(dd.dragItems) : dd.dropTargetId # Some(dd.dragItems[i].id)
    /\ (IsSome(obs.lastDrop) /\ Val(obs.lastDrop).callback = "onDrop") =>
          Val(obs.lastDrop).dstId \notin Range(Val(obs.lastDrop).srcIds)

\* C11: while the pointer of the drag in progress has been over no folder row
\* and no data-drop-path element, dropTargetId is null, and when onDrop is
\* invoked the pointer of that drag had been over one
C11_NonFolderNeverTarget ==
    /\ (dd.state = "DRAGGING" /\ obs.gestureOver # "target") => dd.dropTargetId = None
    /\ (IsSome(obs.lastDrop) /\ Val(obs.lastDrop).callback = "onDrop")
          => obs.gestureOver = "target"

\* a drag whose pointer is over an unselected row that is not a folder
C11_Witness ==
    /\ dd.state = "DRAGGING" /\ obs.gestureOver = "files"
    /\ "b" \notin host.selected /\ host.container
    /\ doc.cursor = "no-drop" /\ dd.dropTargetId = None

\* the name of the item with the id among the rows the container renders, or
\* the empty string when it is not found there
NameAmongRows(id) ==
    LET found == {i \in 0..(host.domCount - 1) :
                     host.container /\ i < host.itemCount /\ ItemIds[i + 1] = id}
    IN IF found = {} THEN "" ELSE ItemNames[(CHOOSE i \in found : TRUE) + 1]

\* the callback a mouseup handled in the current state is to invoke, if any
DropExpected ==
    IF dd.state = "DRAGGING" /\ IsSome(dd.dropTargetId)
    THEN Some([callback |-> "onDrop",
               srcIds |-> [i \in 1..Len(dd.dragItems) |-> dd.dragItems[i].id],
               dstId |-> Val(dd.dropTargetId),
               dstName |-> NameAmongRows(Val(dd.dropTargetId))])
    ELSE IF dd.state = "DRAGGING" /\ IsSome(dd.dropBreadcrumbPath)
    THEN Some([callback |-> "onBreadcrumbDrop",
               srcIds |-> [i \in 1..Len(dd.dragItems) |-> dd.dragItems[i].id],
               path |-> Val(dd.dropBreadcrumbPath)])
    ELSE None

\* the callback the step invoked with its arguments, if any
DropCalled ==
    IF ~IsSome(obs'.lastDrop) THEN None
    ELSE LET d == Val(obs'.lastDrop)
         IN Some([f \in DOMAIN d \ {"at"} |-> d[f]])

\* C12: a mouseup handled in DRAGGING with a row target invokes exactly
\* onDrop(ids of dragItems, dropTargetId, name of that item or ""), else with a
\* breadcrumb path exactly onBreadcrumbDrop(ids of dragItems, path), else
\* nothing; in ARMED or IDLE it invokes nothing; no other step invokes a callback
C12_DropDispatch ==
    [][/\ DropCalled # DropExpected => ~DragDocMouseUp
       /\ IsSome(obs'.lastDrop) => DragDocMouseUp]_vars

\* file b was dropped on folder a, found among the rows
C12_Witness ==
    /\ IsSome(obs.lastDrop)
    /\ Val(obs.lastDrop).callback = "onDrop"
    /\ Val(obs.lastDrop).srcIds = <<"b">>
    /\ Val(obs.lastDrop).dstId = "a" /\ Val(obs.lastDrop).dstName = "A"

\* C13: an Escape keydown received in ARMED or DRAGGING leaves the state IDLE
\* and invokes no callback, and from then until the next press that arms the
\* engine the state stays IDLE and neither onDrop nor onBreadcrumbDrop is invoked
C13_EscapeCancels ==
    obs.escaped # "no" => (dd.state = "IDLE" /\ obs.lastDrop = None)

\* Escape was pressed while a drop target was active
C13_Witness ==
    obs.escaped = "on target" /\ dd.state = "IDLE" /\ doc.listeners = {}

\* C14: between a press that arms the engine and the next one at most one of
\* onDrop and onBreadcrumbDrop is invoked, however many mouseups follow; once
\* it was invoked the engine is IDLE with its cleanup done; and the settling
\* of the callback's promise, fulfilled or rejected, changes nothing of the
\* engine or the page and invokes no callback
C14_DropCleanedUp ==
    /\ obs.gestureDrops <= 1
    /\ obs.gestureDrops = 1 =>
          /\ dd.state = "IDLE" /\ ~dd.isDragging /\ dd.dragItems = <<>>
          /\ dd.dropTargetId = None /\ dd.dropBreadcrumbPath = None
          /\ doc.listeners = {}

C14_AtMostOnce ==
    /\ C14_DropCleanedUp
    /\ [][/\ C14_DropCleanedUp'
          /\ (obs.promise = "pending" /\ obs'.promise \in {"fulfilled", "rejected"})
                => (dd' = dd /\ doc' = doc /\ obs'.lastDrop = None
                    /\ obs'.gestureDrops = obs.gestureDrops)]_vars

\* the promise of the one callback of a gesture was rejected
C14_Witness ==
    /\ obs.promise = "rejected" /\ obs.gestureDrops = 1
    /\ dd.state = "IDLE" /\ doc.listeners = {}

\* C15: a callback is invoked with the ids of dragItems and the target as they
\* were before the cleanup, and finds the engine in IDLE, isDragging false,
\* dragItems empty, dropTargetId and dropBreadcrumbPath null, the body's cursor
\* and userSelect as they were at the press, and no listener of the engine
\* on the document
C15_CleanupBeforeCallback ==
    [][IsSome(obs'.lastDrop) =>
          LET d == Val(obs'.lastDrop)
          IN /\ d.at.state = "IDLE" /\ ~d.at.isDragging /\ d.at.dragItems = <<>>
             /\ d.at.dropTargetId = None /\ d.at.dropBreadcrumbPath = None
             /\ d.at.cursor = obs.bodyBefore.cursor
             /\ d.at.userSelect = obs.bodyBefore.userSelect
             /\ d.at.listeners = {}
             /\ dd.state = "DRAGGING"
             /\ d.srcIds = [i \in 1..Len(dd.dragItems) |-> dd.dragItems[i].id]
             /\ IF d.callback = "onDrop" THEN Some(d.dstId) = dd.dropTargetId
                ELSE Some(d.path) = dd.dropBreadcrumbPath]_vars

\* onDrop was invoked on a page whose body had inline styles before the press
C15_Witness ==
    /\ IsSome(obs.lastDrop)
    /\ Val(obs.lastDrop).callback = "onDrop"
    /\ Val(obs.lastDrop).srcIds # <<>>
    /\ Val(obs.lastDrop).at.cursor = "wait"
    /\ Val(obs.lastDrop).at.userSelect = "text"

\* C17: once a gesture of the drag-and-drop engine has ended, whether in ARMED
\* or in DRAGGING, the inline cursor and userSelect of document.body are what
\* they were at the press that started it
C17_StylesRestored ==
    (dd.state = "IDLE" /\ IsSome(obs.armedOnSelected))
        => /\ doc.cursor = obs.bodyBefore.cursor
           /\ doc.userSelect = obs.bodyBefore.userSelect

\* the same for the gestures that reached DRAGGING: cleanup writes back what
\* startDragging saved
C17_StylesRestoredAfterDrag ==
    [][(dd.state = "DRAGGING" /\ dd'.state = "IDLE")
          => /\ doc'.cursor = obs.bodyBefore.cursor
             /\ doc'.userSelect = obs.bodyBefore.userSelect]_vars

\* C18: whenever no gesture of the area-selection engine is in progress, the
\* inline userSelect of document.body is what it was before the last gesture
\* (before the unmount, when there was none)
C18_UserSelectRestored ==
    (~area.mouseDown /\ ~area.dragging) => doc.userSelect = obs.bodyBefore.userSelect

\* C19: with canDrag wired to shouldSkipAreaSelection and both handlers
\* receiving the same mousedown events, the area selection's mouseDown or
\* dragging flag is never true while the drag and drop is ARMED or DRAGGING
C19_MutualExclusion ==
    ~((area.mouseDown \/ area.dragging) /\ dd.state \in {"ARMED", "DRAGGING"})

\* no single step starts a gesture of both engines
C19_OnePressOneEngine ==
    [][~(/\ ~area.mouseDown /\ area'.mouseDown
         /\ dd.state = "IDLE" /\ dd'.state # "IDLE")]_vars

\* no gesture of the area selection is in progress
AreaIdle == ~area.mouseDown /\ ~area.dragging

\* the document receives a mousemove, mouseup or keydown event
BothDocumentEvent == BothDocMouseMove \/ BothDocMouseUp \/ BothKeyDown

\* an engine with no gesture in progress has no document-level listener
\* attached; the floating box is then not attached to document.body and no
\* animation-frame callback is pending
C16_NothingLeftAttached ==
    /\ dd.state = "IDLE" => DragListeners(doc) = {}
    /\ AreaIdle => (AreaListeners(doc) = {} /\ ~doc.box /\ doc.rafQueue = {})

\* a step that changes the state of an engine with no gesture in progress,
\* attaches a listener of it, invokes a callback of it or changes the DOM or
\* style it writes is no mousemove, mouseup or keydown of the document
C16_IdleEngineUnmoved ==
    [][/\ (/\ dd.state = "IDLE"
           /\ \/ dd' # dd
              \/ DragListeners(doc') # {}
              \/ IsSome(obs'.lastDrop)
              \/ doc'.cursor # doc.cursor)
          => ~BothDocumentEvent
       /\ (/\ AreaIdle
           /\ \/ area' # area
              \/ AreaListeners(doc') # {}
              \/ IsSome(obs'.lastCall)
              \/ doc'.box \/ doc'.rafQueue # {})
          => ~BothDocumentEvent
       /\ (dd.state = "IDLE" /\ AreaIdle /\ doc' # doc) => ~BothDocumentEvent]_vars

\* C16: for both engines, after any termination path (mouseup, Escape, a
\* mousemove without the left button, unmount) no document-level listener of
\* the engine remains attached and the floating box is not attached, and a
\* later mousemove, mouseup or keydown changes no engine state, no DOM or
\* style and invokes no callback until the next accepted onMouseDown
C16_CleanupComplete ==
    /\ C16_NothingLeftAttached
    /\ [][C16_NothingLeftAttached']_vars
    /\ C16_IdleEngineUnmoved

\* both engines have had a gesture that reached dragging and that is over,
\* and the component is unmounted
C16_Witness ==
    /\ dd.state = "IDLE" /\ dd.previewPos # [x |-> 0, y |-> 0]
    /\ AreaIdle /\ IsSome(area.drawArea.start)
    /\ ~host.mounted
    /\ doc.listeners = {} /\ ~doc.box

\* C20: for either engine, an onMouseDown with a non-left button, with enabled
\* false, on an interactive control, on a target outside the container, or
\* (area selection) on a target for which canDrag returns true leaves the whole
\* engine state unchanged and attaches no document listener; neither the DOM
\* or style the engine writes changes nor is a callback of it invoked
C20_InvalidStartIgnored ==
    [][/\ obs'.lastPress \in {Some("invalid for area"), Some("invalid for both")}
          => /\ area' = area
             /\ AreaListeners(doc') = AreaListeners(doc)
             /\ doc'.box = doc.box /\ doc'.rafQueue = doc.rafQueue
             /\ obs'.lastCall = None
       /\ obs'.lastPress \in {Some("invalid for drag"), Some("invalid for both")}
          => /\ dd' = dd
             /\ DragListeners(doc') = DragListeners(doc)
             /\ doc'.cursor = doc.cursor
             /\ obs'.lastDrop = None
       /\ obs'.lastPress = Some("invalid for both") => doc' = doc]_vars

\* a mousedown that is no valid start for either engine has just been
\* received with both engines disabled, and nothing is attached
C20_Witness ==
    /\ obs.lastPress = Some("invalid for both")
    /\ ~host.enabled /\ ~host.dragEnabled
    /\ AreaIdle /\ dd.state = "IDLE"
    /\ doc.listeners = {} /\ ~doc.box

\* C28: isDragging is true if and only if the state is DRAGGING; whenever the
\* state is IDLE or ARMED dragItems is empty and dropTargetId and
\* dropBreadcrumbPath are both null; the three document listeners (mousemove,
\* mouseup, keydown) are attached if and only if the state is not IDLE
C28_ReadOutsAgree ==
    /\ dd.isDragging <=> dd.state = "DRAGGING"
    /\ dd.state \in {"IDLE", "ARMED"} =>
          (dd.dragItems = <<>> /\ dd.dropTargetId = None /\ dd.dropBreadcrumbPath = None)
    /\ IF dd.state = "IDLE" THEN DragListeners(doc) = {}
       ELSE DragListeners(doc) = {"drag.mousemove", "drag.mouseup", "drag.keydown"}

\* a drag with a row target under the pointer
C28_Witness ==
    /\ dd.state = "DRAGGING" /\ dd.isDragging
    /\ dd.dragItems # <<>> /\ IsSome(dd.dropTargetId)
    /\ DragListeners(doc) = {"drag.mousemove", "drag.mouseup", "drag.keydown"}

\* the id of the valid row target under the pointer of the mousemove event e:
\* a row the container renders whose item is a folder that is not selected
RowTargetUnder(e) ==
    LET r == e.over.row
    IN IF /\ IsSome(r) /\ host.container /\ Val(r).inside
          /\ Val(r).index >= 0 /\ Val(r).index < host.itemCount
          /\ ItemAt(Val(r).index).type = "folder"
          /\ ItemAt(Val(r).index).id \notin host.selected
       THEN Some(ItemAt(Val(r).index).id)
       ELSE None

\* the targets after a mousemove in DRAGGING are not those the event e calls for
TargetsDisagree(e) ==
    \/ dd'.dropTargetId # RowTargetUnder(e)
    \/ IsSome(RowTargetUnder(e)) /\ dd'.dropBreadcrumbPath # None
    \/ /\ IsSome(dd'.dropBreadcrumbPath)
       /\ ~(host.breadcrumbDrop /\ dd'.dropBreadcrumbPath = e.over.crumb)

\* C27: dropTargetId and dropBreadcrumbPath are never both non-null; after each
\* mousemove in DRAGGING a valid row target under the pointer sets dropTargetId
\* and forces dropBreadcrumbPath to null, and a breadcrumb path is taken only
\* when there is no valid row target and onBreadcrumbDrop was supplied
C27_TargetExclusivity ==
    /\ ~(IsSome(dd.dropTargetId) /\ IsSome(dd.dropBreadcrumbPath))
    /\ [][/\ ~(IsSome(dd'.dropTargetId) /\ IsSome(dd'.dropBreadcrumbPath))
          /\ (dd'.state = "DRAGGING" /\ dd.state # "IDLE" /\ host' = host) =>
                \A e \in DragMouseMoveEvents(host.domCount) :
                    (/\ e.left
                     /\ dd'.previewPos = [x |-> e.clientX + 12, y |-> e.clientY + 12]
                     /\ TargetsDisagree(e))
                        => ~DragDocMouseMoveWith(e)]_vars

\* a drag over a data-drop-path element that is taken as the target while the
\* first row is no valid row target
C27_Witness ==
    /\ dd.state = "DRAGGING"
    /\ dd.dropBreadcrumbPath = Some("/docs") /\ dd.dropTargetId = None
    /\ host.breadcrumbDrop /\ "a" \in host.selected

\* the selected items of the host's list, in list order
SelectionNow ==
    LET RECURSIVE From(_)
        From(i) == IF i >= host.itemCount THEN <<>>
                   ELSE (IF ItemIds[i + 1] \in host.selected THEN <<ItemAt(i)>> ELSE <<>>)
                        \o From(i + 1)
    IN From(0)

\* C22: dragItems is set to getSelectedItems() exactly once per gesture, at the
\* ARMED->DRAGGING transition, and stays unchanged for the rest of the DRAGGING
\* state whatever the host's selection becomes; the sourceIds given to the drop
\* callback are the ids of that snapshot, not of the selection at release time
C22_DragItemsSnapshot ==
    [][/\ (dd.state = "ARMED" /\ dd'.state = "DRAGGING") => dd'.dragItems = SelectionNow
       /\ (dd.state = "DRAGGING" /\ dd'.state = "DRAGGING") => dd'.dragItems = dd.dragItems
       /\ dd'.dragItems # dd.dragItems =>
             \/ dd.state = "ARMED" /\ dd'.state = "DRAGGING"
             \/ dd.state = "DRAGGING" /\ dd'.state = "IDLE" /\ dd'.dragItems = <<>>
       /\ IsSome(obs'.lastDrop) =>
             /\ dd.state = "DRAGGING"
             /\ Val(obs'.lastDrop).srcIds =
                    [i \in 1..Len(dd.dragItems) |-> dd.dragItems[i].id]]_vars

\* item b was dropped after it had left the host's selection during the drag
C22_Witness ==
    /\ IsSome(obs.lastDrop)
    /\ Val(obs.lastDrop).srcIds = <<"b">>
    /\ "b" \notin host.selected

\* a step leaves both engines with their cleanup done and nothing else changed:
\* the drag and drop in IDLE with empty read-outs, the area selection with its
\* flags and frame handle reset, no listener of either on the document, the
\* floating box detached, no frame pending, and no callback invoked
CleanlyCancelled ==
    /\ dd'.state = "IDLE" /\ ~dd'.isDragging /\ dd'.dragItems = <<>>
    /\ dd'.dropTargetId = None /\ dd'.dropBreadcrumbPath = None
    /\ ~dd'.scrollParent
    /\ dd'.mouseDownX = dd.mouseDownX /\ dd'.mouseDownY = dd.mouseDownY
    /\ dd'.previewPos = dd.previewPos
    /\ area' = [area EXCEPT !.mouseDown = FALSE, !.dragging = FALSE,
                            !.scrollParent = FALSE, !.rafId = None]
    /\ doc'.listeners = {} /\ ~doc'.box /\ doc'.rafQueue = {}
    /\ doc'.scrollTop = doc.scrollTop
    /\ host' = host
    /\ obs'.lastDrop = None /\ obs'.lastCall = None

\* C23: in either engine, a document mousemove with the left-button bit clear
\* performs the full cleanup at once and does nothing else; in the drag and
\* drop this holds in ARMED and in DRAGGING, ends in IDLE, and invokes neither
\* onDrop nor onBreadcrumbDrop even when a drop target was active.  (The values
\* the body's styles are set to are the matter of C17 and C18.)
C23_ButtonLostCancels ==
    [][IsSome(obs'.lastCancel) => CleanlyCancelled]_vars

\* a mousemove with no button held has just ended a drag that had a drop
\* target active
C23_Witness ==
    /\ obs.lastCancel = Some("drop target")
    /\ dd.state = "IDLE" /\ doc.listeners = {}

\* C26: while the promise of a previous gesture's drop callback is pending the
\* engine in IDLE accepts a new onMouseDown; a mouseup of the new gesture
\* invokes its own drop callback without the earlier one being awaited; and
\* the settling of the earlier promise changes no engine state of the new
\* gesture and invokes nothing
C26_OverlappingDrop ==
    [][/\ (obs.promise = "pending" /\ obs'.lastPress = Some("selected item"))
             => /\ dd.state = "IDLE" /\ dd'.state = "ARMED"
                /\ DragListeners(doc') = {"drag.mousemove", "drag.mouseup",
                                          "drag.keydown"}
       /\ (/\ obs.promise = "pending" /\ IsSome(DropExpected)
           /\ obs'.lastDrop = None)
             => ~DropDocMouseUp
       /\ (obs.earlier = "pending" /\ obs'.earlier = "none")
             => (dd' = dd /\ doc' = doc /\ obs'.lastDrop = None)]_vars

\* the callback of a new gesture has just been invoked while the promise of
\* the previous gesture's callback is still pending
C26_Witness ==
    /\ IsSome(obs.lastDrop)
    /\ obs.promise = "pending" /\ obs.earlier = "pending"
    /\ dd.state = "IDLE"

\* the animation-frame callback of this step ran while the engine was dragging
FrameRanInDrag == IsSome(area.rafId) /\ area'.rafId = None /\ area'.dragging

\* at most one animation-frame callback is pending, and rafId is non-null
\* exactly while one is
C21_OneFramePending ==
    /\ Cardinality(doc.rafQueue) <= 1
    /\ IF IsSome(area.rafId) THEN doc.rafQueue = {Val(area.rafId)}
       ELSE doc.rafQueue = {}

\* C21: at most one animation-frame callback of the engine is pending (rafId is
\* non-null exactly while one is pending), and the processSelection run of a
\* frame uses the drawArea end point and modifier keys of the latest mousemove
\* (stated here for the latest one the engine received with enabled true and
\* the container present since the threshold was crossed)
C21_FrameCoalescing ==
    /\ C21_OneFramePending
    /\ [][/\ C21_OneFramePending'
          /\ (FrameRanInDrag /\ IsSome(obs'.lastRun)) =>
                /\ IsSome(obs.lastMove)
                /\ area.drawArea.end =
                       Some(getPosition(doc.scrollTop, Val(obs.lastMove).clientX,
                                        Val(obs.lastMove).clientY))
                /\ area.drawArea.ctrlKey = Val(obs.lastMove).ctrlKey]_vars

\* C24: whenever processSelection runs in a drag session, drawArea.start is the
\* container-local coordinate of the press-down point of the current gesture
\* (the client coordinates recorded by the accepted onMouseDown), never a start
\* left over from an earlier gesture, including when containerRef is null at
\* the moment the threshold is crossed (stated here for the gestures whose
\* press was accepted while the engine was not dragging)
C24_StartAnchored ==
    [][(IsSome(obs'.lastRun) /\ ~obs'.pressWhileDragging) =>
          area'.drawArea.start =
              Some(getPosition(doc'.scrollTop, obs'.press.x, obs'.press.y))]_vars

\* the same for the drag sessions that started with the container present
C24_StartAnchoredWithContainer ==
    [][(/\ IsSome(obs'.lastRun) /\ ~obs'.pressWhileDragging
        /\ ~area.dragging /\ area'.dragging) =>
          area'.drawArea.start =
              Some(getPosition(doc'.scrollTop, obs'.press.x, obs'.press.y))]_vars

\* no animation frame is requested or pending while the engine is not dragging
C29_NoFrameOutsideDrag ==
    ~area.dragging => (area.rafId = None /\ doc.rafQueue = {})

\* C29: onSelectionChange is invoked, and processSelection runs, only while the
\* dragging flag is true; when a drag ends (release, lost button or unmount) the
\* recomputation scheduled by a mousemove or an itemCount change is cancelled,
\* so no frame is left to run processSelection afterwards; an itemCount change
\* while not dragging emits nothing, schedules nothing and leaves the engine
\* as it was
C29_NoEmissionOutsideDrag ==
    /\ C29_NoFrameOutsideDrag
    /\ [][/\ C29_NoFrameOutsideDrag'
          /\ IsSome(obs'.lastCall) =>
                (Val(obs'.lastCall).dragging /\ area'.dragging)
          /\ IsSome(obs'.lastRun) => area'.dragging
          /\ (FrameRanInDrag /\ IsSome(obs'.lastRun)) => area.dragging
          /\ (~area.dragging /\ host'.itemCount # host.itemCount) =>
                /\ obs'.lastCall = None /\ obs'.lastRun = None
                /\ area' = area /\ doc' = doc]_vars

\* a drag session has just ended with its scheduled recomputation not yet run
C29_Witness ==
    /\ obs.lastCancel = Some("frame pending")
    /\ ~area.dragging /\ doc.rafQueue = {}

\* this step is an itemCount change
ItemCountChanged == host'.itemCount # host.itemCount

\* what an itemCount change does: while dragging with the container present
\* the candidates are captured again from the rendered rows and a frame is
\* pending afterwards, the one already requested if there was one; otherwise
\* the engine and the document are left as they were
C25_RecaptureAndSchedule ==
    [][ItemCountChanged =>
          IF area.dragging /\ host.container
          THEN /\ area'.selectCandidates =
                     updateCandidates(RenderedRows(host.domCount))
               /\ IsSome(area'.rafId) /\ Val(area'.rafId) \in doc'.rafQueue
               /\ IsSome(area.rafId) =>
                     (area'.rafId = area.rafId /\ doc'.rafQueue = doc.rafQueue)
               /\ Cardinality(doc'.rafQueue) = 1
               /\ obs'.recapture = "pending"
          ELSE /\ area' = area /\ doc' = doc
               /\ obs'.recapture = obs.recapture]_vars

\* a recapture stops being pending only when the drag ends or when the frame
\* runs processSelection, which computes from the recaptured candidates
\* unless it returns at line 154 or the candidates are empty
C25_FrameRunsSelection ==
    [][(obs.recapture = "pending" /\ obs'.recapture = "none" /\ area'.dragging) =>
          /\ FrameRanInDrag
          /\ area'.selectCandidates = area.selectCandidates
          /\ (/\ IsSome(area.drawArea.start) /\ IsSome(area.drawArea.end)
              /\ host.container /\ area.selectCandidates # <<>>)
                => IsSome(obs'.lastRun)]_vars

\* C25: an itemCount change while dragging with the container present
\* recaptures the candidates and schedules a recomputation unless one is pending,
\* and a processSelection run eventually follows it if the drag is still in
\* progress at the next frame; an itemCount change while not dragging
\* recaptures nothing and schedules nothing
C25_ListMutationMidDrag ==
    /\ C25_RecaptureAndSchedule
    /\ C25_FrameRunsSelection
    /\ (obs.recapture = "pending") ~> (obs.recapture = "none")

\* the list has changed in a drag and the recomputation is scheduled
C25_Witness ==
    /\ obs.recapture = "pending"
    /\ area.dragging /\ IsSome(area.rafId)
    /\ host.itemCount # host.domCount \/ area.selectCandidates # <<>>

\* a task that is cancelled gets no further chunk request
C30_NoRequestAfterCancel ==
    [][\A k \in DOMAIN upload.tasks :
          upload.tasks[k].status = "cancelled" =>
              upload'.requests[k] = upload.requests[k]]_vars

\* a task that is cancelled does not become failed
C30_NotFailedAfterCancel ==
    [][\A k \in DOMAIN upload.tasks :
          upload.tasks[k].status = "cancelled" =>
              upload'.tasks[k].status # "failed"]_vars

\* C30: for every interleaving of cancelTask with processChunks of the same
\* task, once cancelTask has set the status to 'cancelled' the status stays
\* 'cancelled' (it never becomes 'completed' or 'failed') and no further chunk
\* request is started for the task
C30_CancellationFinal ==
    [][\A k \in DOMAIN upload.tasks :
          upload.tasks[k].status = "cancelled" =>
              /\ upload'.tasks[k].status = "cancelled"
              /\ upload'.requests[k] = upload.requests[k]]_vars

====
